---- MODULE Spec2Model ----
(***************************************************************************)
(* Model of the media pipelines of shanghai-discovery:                     *)
(*   - the video dubbing pipeline (dubVideo and the stages it awaits:      *)
(*     extractAudio, separateAudio, transcribeAudio, translateSegments,    *)
(*     generateAllSegments, syncAudioTiming, assembleAudioTrack,           *)
(*     replaceAudioTrack), specification Spec;                             *)
(*   - the per-image translation flow of uploadAllImagesToSupabase         *)
(*     (analyzeImageWithGoogle, editImageWithQwen,                         *)
(*     validateImageTranslation, overlayTranslatedText),                   *)
(*     specification SpecImage.                                            *)
(*                                                                         *)
(* Time is counted in ticks of 0.2 ms (Ms, Sec below), fine enough that    *)
(* the three-decimal formatting of durations handed to ffmpeg              *)
(* (toFixed(3)) is a real rounding and never a tie.  A ratio               *)
(* audioDuration / duration is kept as the pair (a, d) and compared by     *)
(* cross-multiplication; d = 0 gives the IEEE results Infinity (a > 0)     *)
(* and NaN (a = 0).                                                        *)
(***************************************************************************)
EXTENDS Integers, Sequences, FiniteSets, TLC

VARIABLES
    \* ---- dubVideo ----
    pc,              \* position of dubVideo / of the stage it awaits
    env,             \* process.env keys present, demucs probe result
    videoDuration,   \* duration returned by extractAudio (ticks)
    accompanimentPath, \* <<>> (null) or the no_vocals path
    attempt,         \* transcribeAudio: loop counter
    lastError,       \* transcribeAudio: <<>> or <<message>>
    whisperLog,      \* transcribeAudio: API calls and sleeps of the current call
    ttsLog,          \* generateAllSegments: TTS requests and sleeps, in order
    segments,        \* the segment list the current stage reads
    results,         \* the list the current stage is building
    idx,             \* assembleAudioTrack: loop index i
    concatList,      \* assembleAudioTrack: files to concatenate, with lengths
    currentTime,     \* assembleAudioTrack: currentTime
    files,           \* files on disk in the working directory
    invoked,         \* functions dubVideo has called so far
    err,             \* <<>> or <<error, detail>> dubVideo rejected with
    \* ---- uploadAllImagesToSupabase, one image ----
    ipc,             \* position in the per-image flow
    qwenKey,         \* QWEN_API_KEY is set
    overlayCount,    \* textAnalysis.overlays.length
    translatedPath,  \* local translatedPath
    finalImagePath,  \* local finalImagePath
    validation,      \* last validation result: <<>> or <<success, verdict>>
    ifiles,          \* image files present in the image folder
    icalls,          \* calls made for this image, in order
    ierr,            \* <<>> or the error that escaped the per-image flow
    \* ---- analyzeImageWithGoogle ----
    opc,             \* position in analyzeImageWithGoogle
    blocks,          \* textBlocks.length
    batchStart,      \* batched fallback: loop variable start
    allOverlays,     \* batched fallback: allOverlays.length
    filtered,        \* filteredOverlays: <<>> (null) or <<overlays.length>>
    pending,         \* <<>> or <<the text the classifier answered with>>
    hcall,           \* <<>> or <<attempts and result of the last parse>>
    batchLog,        \* batched fallback: the batches classified so far
    oret,            \* <<>> or <<overlays.length>> of the object returned
    \* ---- overlayTranslatedText: the text of one overlay is fitted ----
    wpc,             \* position in the drawing of one overlay
    words,           \* text.split(' '): the length of each word
    boxWidth,        \* boxWidth, in pixels
    boxHeight,       \* boxHeight, in pixels
    fontSize,        \* fontSize
    lines,           \* lines: the length of each line, in characters
    \* ---- main: the loop over the posts of one source ----
    mpc,             \* position in main
    ci,              \* process.env.CI is set
    posts,           \* the posts of the source, and what happens to each
    sourceLimit,     \* <<>> (no limit) or <<the limit of accepted posts>>
    mi,              \* loop variable i
    sourceAccepted,  \* sourceAccepted
    videoCount,      \* videoCount
    accepted,        \* results.accepted: the posts pushed, in order
    rejected,        \* results.rejected
    errors,          \* results.errors
    mlog,            \* per iteration: the last step reached, threw or not
    \* ---- translateSegments: one segment is translated ----
    tpc,             \* position in the iteration for one segment
    tsegment,        \* the segment: its duration and the words of its text
    tanswer,         \* <<>> or <<the text the translation service answered>>
    tenglish,         \* <<>> or <<the english of the record pushed>>
    \* ---- Feed: the component, its effects and its fetches ----
    activeTab,       \* state activeTab ("idle": no Feed is mounted)
    feedPosts,       \* state posts: the categories of the posts listed
    offset,          \* state offset
    hasMore,         \* state hasMore
    initialLoading,  \* state initialLoading
    loadingMoreRef,  \* loadingMoreRef.current
    effectTab,       \* the activeTab the first-page effect last ran for
    observerClosure, \* <<>> or <<the values the observer's loadMore closes over>>
    observing,       \* the observer watches a sentinel that is in the page
    firstPageFetches,\* first-page queries in flight, cancelled or not
    loadMoreFetches, \* loadMore queries in flight, in the order issued
    lastFire         \* what the last observer callback came to

dubVars == <<pc, env, videoDuration, accompanimentPath, attempt, lastError,
             whisperLog, ttsLog, segments, results, idx, concatList, currentTime,
             files, invoked, err>>
imgVars == <<ipc, qwenKey, overlayCount, translatedPath, finalImagePath, validation,
             ifiles, icalls, ierr>>
ocrVars == <<opc, blocks, batchStart, allOverlays, filtered, pending, hcall,
             batchLog, oret>>
wrapVars == <<wpc, words, boxWidth, boxHeight, fontSize, lines>>
mainVars == <<mpc, ci, posts, sourceLimit, mi, sourceAccepted, videoCount,
              accepted, rejected, errors, mlog>>
transVars == <<tpc, tsegment, tanswer, tenglish>>
feedVars == <<activeTab, feedPosts, offset, hasMore, initialLoading,
              loadingMoreRef, effectTab, observerClosure, observing,
              firstPageFetches, loadMoreFetches, lastFire>>
vars == <<dubVars, imgVars, ocrVars, wrapVars, mainVars, transVars, feedVars>>

\* What a step of one machine leaves alone.
notDubVars == <<imgVars, ocrVars, wrapVars, mainVars, transVars, feedVars>>
notImgVars == <<dubVars, ocrVars, wrapVars, mainVars, transVars, feedVars>>
notOcrVars == <<dubVars, imgVars, wrapVars, mainVars, transVars, feedVars>>
notWrapVars == <<dubVars, imgVars, ocrVars, mainVars, transVars, feedVars>>
notMainVars == <<dubVars, imgVars, ocrVars, wrapVars, transVars, feedVars>>
notTransVars == <<dubVars, imgVars, ocrVars, wrapVars, mainVars, feedVars>>
notFeedVars == <<dubVars, imgVars, ocrVars, wrapVars, mainVars, transVars>>

-----------------------------------------------------------------------------
(* Units and bounds *)

Ms(n) == 5 * n
Sec(n) == 5000 * n

\* Largest number of segments a transcription returns in the model.
MaxSegs == 2

\* Duration extractAudio reports for the video.
VideoDurs == {Sec(8)}
\* Silence between two consecutive speech segments (8 ms is below the
\* assembler's 10 ms threshold).
Gaps == {0, Ms(8), Sec(1)}
\* end - start of a transcribed segment (Whisper does return empty ones).
Durs == {0, Sec(3), Sec(4)}

\* Durations ffprobe may report for the synthesized clip of a segment of
\* duration d: they hit every branch of syncAudioTiming and the boundaries
\* 0.95, 1.05 and 1.5 (3.8 / 4, 4.2 / 4 and 4.5 / 3 are exact in binary
\* floating point, so the code's comparisons agree with the exact ones).
AudioChoices(d) ==
    IF d = 0 THEN {0, Sec(3)}
    ELSE IF d = Sec(3) THEN {Sec(2), Sec(3) + 1, Ms(4500), Sec(5)}
    ELSE {Ms(3800) - 1, Ms(3800), Ms(4200), Ms(4200) + 1}

-----------------------------------------------------------------------------
(* Number formatting *)

\* Number.prototype.toFixed(3) of a non-negative duration in seconds, as
\* ticks: the nearest millisecond (ticks of 0.2 ms never tie).
ToFixed3(t) == ((t + Ms(1) \div 2) \div Ms(1)) * Ms(1)

\* The ratio cut to two decimals instead of rounded.
RatioTruncated2(a, d) == (100 * a) \div d

\* ratio.toFixed(2) of a / d, in hundredths (round half up); d > 0.
RatioToFixed2(a, d) == (200 * a + d) \div (2 * d)

\* speedFactor.toFixed(3) of num / den, in thousandths (round half up).
RatioToFixed3(num, den) == (2000 * num + den) \div (2 * den)

-----------------------------------------------------------------------------
(* Segment records.  A field a stage has not added yet is the empty set    *)
(* (numbers, booleans) or the empty tuple (paths).                         *)

\* A path is <<name, index>>; null is <<>>.
File(name) == <<name, 0>>
SegmentPath(i) == <<"segment", i>>
AdjustedPath(i) == <<"adjusted", i>>
SilencePath(i) == <<"silence", i>>

TranscribedSegment(start, end) ==
    [text |-> "zh", start |-> start, end |-> end, chinese |-> "",
     duration |-> {}, english |-> "", audioPath |-> <<>>,
     audioDuration |-> {}, error |-> "", adjustedAudioPath |-> <<>>,
     speedAdjustment |-> <<>>, adjusted |-> {}, warning |-> {},
     silencePadding |-> {}, clipLen |-> {}]

RECURSIVE EndOfShape(_, _)
EndOfShape(shape, k) ==
    IF k = 0 THEN 0
    ELSE EndOfShape(shape, k - 1) + shape[k][1] + shape[k][2]

SegmentsOfShape(shape) ==
    [k \in DOMAIN shape |->
        TranscribedSegment(EndOfShape(shape, k - 1) + shape[k][1],
                           EndOfShape(shape, k))]

\* What the speech-recognition service may return for a video of the given
\* duration: time-ordered, non-overlapping segments inside the video.
WhisperSegments(duration) ==
    { SegmentsOfShape(sh) :
        sh \in { s \in UNION { [1..n -> Gaps \X Durs] : n \in 0..MaxSegs } :
                   EndOfShape(s, Len(s)) <= duration } }

-----------------------------------------------------------------------------
(* dubVideo: entry, EXTRACT_AUDIO, SEPARATE_BACKGROUND *)

Throw(e, detail) ==
    /\ pc' = "threw"
    /\ err' = <<e, detail>>

\* dubVideo, up to the first await.
dubVideoStart ==
    /\ pc = "start"
    /\ IF File("video") \notin files
       THEN /\ Throw("Video not found", "")
            /\ UNCHANGED invoked
       ELSE /\ pc' = "extract"
            /\ invoked' = invoked \cup {"extractAudio"}
            /\ UNCHANGED err
    /\ UNCHANGED <<env, videoDuration, accompanimentPath, attempt, lastError,
                   whisperLog, ttsLog, segments, results, idx, concatList,
                   currentTime, files>>

\* extractAudio: ffprobe for the duration, ffmpeg for the mono track.
extractAudio ==
    /\ pc = "extract"
    /\ \E ok \in BOOLEAN :
         IF ok
         THEN /\ \E d \in VideoDurs : videoDuration' = d
              /\ files' = files \cup {File("audio-whisper.mp3")}
              /\ pc' = "probe"
              /\ UNCHANGED err
         ELSE /\ Throw("Audio extraction failed", "")
              /\ UNCHANGED <<videoDuration, files>>
    /\ UNCHANGED <<env, accompanimentPath, attempt, lastError, whisperLog, ttsLog,
                   segments, results, idx, concatList, currentTime, invoked>>

\* A dubVideo that attempts the separation whatever the probe said.
isDemucsInstalledIgnored ==
    /\ pc = "probe"
    /\ pc' = "hq"
    /\ invoked' = invoked \cup {"extractHighQualityAudio"}
    /\ UNCHANGED <<env, videoDuration, accompanimentPath, attempt, lastError,
                   whisperLog, ttsLog, segments, results, idx, concatList,
                   currentTime, files, err>>

\* isDemucsInstalled and the branch on it.
isDemucsInstalled ==
    /\ pc = "probe"
    /\ IF env.demucs
       THEN /\ pc' = "hq"
            /\ invoked' = invoked \cup {"extractHighQualityAudio"}
       ELSE /\ pc' = "transcribe"
            /\ invoked' = invoked \cup {"transcribeAudio"}
    /\ UNCHANGED <<env, videoDuration, accompanimentPath, attempt, lastError,
                   whisperLog, ttsLog, segments, results, idx, concatList,
                   currentTime, files, err>>

extractHighQualityAudio ==
    /\ pc = "hq"
    /\ \E ok \in BOOLEAN :
         IF ok
         THEN /\ files' = files \cup {File("audio-hq.wav")}
              /\ pc' = "separate"
              /\ invoked' = invoked \cup {"separateAudio"}
              /\ UNCHANGED err
         ELSE /\ Throw("High-quality audio extraction failed", "")
              /\ UNCHANGED <<files, invoked>>
    /\ UNCHANGED <<env, videoDuration, accompanimentPath, attempt, lastError,
                   whisperLog, ttsLog, segments, results, idx, concatList,
                   currentTime>>

\* A separateAudio whose failure is swallowed: dubbing goes on without the
\* background track.
separateAudioBestEffort ==
    /\ pc = "separate"
    /\ \E ok \in BOOLEAN :
         /\ IF ok
            THEN /\ files' = files \cup {File("no_vocals.mp3")}
                 /\ accompanimentPath' = File("no_vocals.mp3")
            ELSE UNCHANGED <<files, accompanimentPath>>
         /\ pc' = "transcribe"
         /\ invoked' = invoked \cup {"transcribeAudio"}
         /\ UNCHANGED err
    /\ UNCHANGED <<env, videoDuration, attempt, lastError, whisperLog, ttsLog,
                   segments, results, idx, concatList, currentTime>>

\* separateAudio: the demucs command, then the check for no_vocals.mp3.
separateAudio ==
    /\ pc = "separate"
    /\ \E outcome \in {"ok", "commandFailed", "noOutput"} :
         IF outcome = "ok"
         THEN /\ files' = files \cup {File("no_vocals.mp3")}
              /\ accompanimentPath' = File("no_vocals.mp3")
              /\ pc' = "transcribe"
              /\ invoked' = invoked \cup {"transcribeAudio"}
              /\ UNCHANGED err
         ELSE /\ Throw(IF outcome = "noOutput"
                       THEN "Demucs ran but no_vocals.mp3 not found"
                       ELSE "Demucs failed", "")
              /\ UNCHANGED <<files, accompanimentPath, invoked>>
    /\ UNCHANGED <<env, videoDuration, attempt, lastError, whisperLog, ttsLog,
                   segments, results, idx, concatList, currentTime>>

-----------------------------------------------------------------------------
(* TRANSCRIBE: transcribeAudio *)

MAX_RETRIES == 3
BACKOFF_BASE_MS == 2000

\* What one call of openai.audio.transcriptions.create may end with: a
\* response (status 200) or an error with its HTTP status (0: none, a
\* connection error) and message.
WhisperOutcomes ==
    { [status |-> 200, msg |-> ""],
      [status |-> 400, msg |-> "Invalid file format"],
      [status |-> 429, msg |-> "Rate limit reached"],
      [status |-> 500, msg |-> "Internal server error"],
      [status |-> 0,   msg |-> "Connection error"] }

CallEvent(out) == [ev |-> "call", status |-> out.status, msg |-> out.msg, ms |-> 0]
SleepEvent(ms) == [ev |-> "sleep", status |-> 0, msg |-> "", ms |-> ms]

\* The loop condition with one attempt too many.
RetryLoopOneMore(a) == a <= MAX_RETRIES + 1

\* for (let attempt = 1; attempt <= MAX_RETRIES; attempt++)
RetryLoopContinues(a) == a <= MAX_RETRIES

\* sleep(2000 * Math.pow(2, attempt - 1))
Backoff(a) == BACKOFF_BASE_MS * 2 ^ (a - 1)

\* A catch block that tells no validation error apart.
IsValidationErrorNever(status) == FALSE

\* if (error.status === 400)
IsValidationError(status) == status = 400

\* transcribeAudio, up to the retry loop: the key, the file, its size.
transcribeAudioStart ==
    /\ pc = "transcribe"
    /\ \E tooBig \in BOOLEAN :
         IF ~env.openai
         THEN /\ Throw("OPENAI_API_KEY not found in .env file", "")
              /\ UNCHANGED attempt
         ELSE IF File("audio-whisper.mp3") \notin files
         THEN /\ Throw("Audio file not found", "")
              /\ UNCHANGED attempt
         ELSE IF tooBig
         THEN /\ Throw("Whisper API limit is 25MB", "")
              /\ UNCHANGED attempt
         ELSE /\ pc' = "whisper"
              /\ attempt' = 1
              /\ UNCHANGED err
    /\ UNCHANGED <<env, videoDuration, accompanimentPath, lastError,
                   whisperLog, ttsLog, segments, results, idx, concatList,
                   currentTime, files, invoked>>

\* One iteration of the retry loop: the backoff sleep (attempt > 1), the
\* API call, and the return or the catch block.
transcribeAttempt ==
    /\ pc = "whisper"
    /\ RetryLoopContinues(attempt)
    /\ \E out \in WhisperOutcomes :
         LET slept == IF attempt > 1
                      THEN Append(whisperLog, SleepEvent(Backoff(attempt)))
                      ELSE whisperLog
         IN  /\ whisperLog' = Append(slept, CallEvent(out))
             /\ IF out.status = 200
                THEN /\ \E segs \in WhisperSegments(videoDuration) :
                            segments' = segs
                     /\ pc' = "transcribed"
                     /\ UNCHANGED <<attempt, lastError, err>>
                ELSE /\ lastError' = <<out.msg>>
                     /\ UNCHANGED segments
                     /\ IF IsValidationError(out.status)
                        THEN /\ Throw("Whisper API rejected the audio", out.msg)
                             /\ UNCHANGED attempt
                        ELSE /\ attempt' = attempt + 1
                             /\ UNCHANGED <<pc, err>>
    /\ UNCHANGED <<env, videoDuration, accompanimentPath, results, idx,
                   concatList, currentTime, files, invoked, ttsLog>>

\* After the loop: all retries failed.
transcribeExhausted ==
    /\ pc = "whisper"
    /\ ~RetryLoopContinues(attempt)
    /\ Throw("Whisper transcription failed after 3 attempts", lastError[1])
    /\ UNCHANGED <<env, videoDuration, accompanimentPath, attempt, lastError,
                   whisperLog, ttsLog, segments, results, idx, concatList,
                   currentTime, files, invoked>>

\* The zero-segment check left out.
NoSpeechUnchecked(segs) == FALSE

\* if (transcribedSegments.length === 0)
NoSpeech(segs) == Len(segs) = 0

\* dubVideo after transcribeAudio returned: the zero-segment check, then the
\* call of translateSegments.  transcribeAudio's locals are gone.
checkSegments ==
    /\ pc = "transcribed"
    /\ attempt' = 0
    /\ lastError' = <<>>
    /\ whisperLog' = <<>>
    /\ IF NoSpeech(segments)
       THEN /\ Throw("No speech segments found in video", "")
            /\ UNCHANGED invoked
       ELSE /\ pc' = "translate"
            /\ invoked' = invoked \cup {"translateSegments"}
            /\ UNCHANGED err
    /\ UNCHANGED <<env, videoDuration, accompanimentPath, segments, results,
                   idx, concatList, currentTime, files, ttsLog>>

-----------------------------------------------------------------------------
(* TRANSLATE: translateSegments *)

The(S) == CHOOSE x \in S : TRUE

\* translateSegments, up to its loop.
translateSegmentsStart ==
    /\ pc = "translate"
    /\ IF ~env.openai
       THEN /\ Throw("OPENAI_API_KEY not found in .env file", "")
            /\ UNCHANGED results
       ELSE /\ pc' = "translating"
            /\ results' = <<>>
            /\ UNCHANGED err
    /\ UNCHANGED <<env, videoDuration, accompanimentPath, attempt, lastError,
                   whisperLog, ttsLog, segments, idx, concatList, currentTime, files,
                   invoked>>

\* A record whose times are counted from the start of its own segment.
TranslatedSegmentZeroBased(seg, ok) ==
    [seg EXCEPT !.text = "",
                !.chinese = seg.text,
                !.start = 0,
                !.end = seg.end - seg.start,
                !.duration = {seg.end - seg.start},
                !.english = IF ok THEN "en" ELSE seg.text]

\* A fallback record that leaves the translation out.
TranslatedSegmentBlank(seg, ok) ==
    [seg EXCEPT !.text = "",
                !.chinese = seg.text,
                !.duration = {seg.end - seg.start},
                !.english = IF ok THEN "en" ELSE ""]

\* The record translateSegments pushes for a segment: a new object with
\* chinese (the source text, which is no longer called text), english (the
\* translation, or the source text when translateSegment threw), start, end
\* and duration.
TranslatedSegment(seg, ok) ==
    [seg EXCEPT !.text = "",
                !.chinese = seg.text,
                !.duration = {seg.end - seg.start},
                !.english = IF ok THEN "en" ELSE seg.text]

\* One iteration of the loop of translateSegments.
translateSegment ==
    /\ pc = "translating"
    /\ Len(results) < Len(segments)
    /\ \E ok \in BOOLEAN :
         results' = Append(results,
                           TranslatedSegment(segments[Len(results) + 1], ok))
    /\ UNCHANGED <<pc, env, videoDuration, accompanimentPath, attempt,
                   lastError, whisperLog, ttsLog, segments, idx, concatList,
                   currentTime, files, invoked, err>>

-----------------------------------------------------------------------------
(* SYNTHESIZE: generateAllSegments *)

\* translateSegments returns; dubVideo calls generateAllSegments, which
\* checks its key and starts its loop.
generateAllSegmentsStart ==
    /\ pc = "translating"
    /\ Len(results) = Len(segments)
    /\ invoked' = invoked \cup {"generateAllSegments"}
    /\ IF ~env.eleven
       THEN /\ Throw("ELEVENLABS_API_KEY not found in .env file", "")
            /\ UNCHANGED <<segments, results>>
       ELSE /\ pc' = "tts"
            /\ segments' = results
            /\ results' = <<>>
            /\ UNCHANGED err
    /\ UNCHANGED <<env, videoDuration, accompanimentPath, attempt, lastError,
                   whisperLog, ttsLog, idx, concatList, currentTime, files>>

\* What generateSpeech + saveAudioToFile + getAudioDuration may end with for
\* a segment of duration d: a clip of some measured duration, or an error
\* of the TTS call (an error after the clip was written leaves the same
\* record).
SpeechOutcomes(d) ==
    { [ok |-> TRUE, wrote |-> TRUE, dur |-> a] : a \in AudioChoices(d) }
    \cup { [ok |-> FALSE, wrote |-> FALSE, dur |-> 0] }

\* A catch block that leaves the path of the clip in the record.
SpokenSegmentKeepsPath(seg, i, out) ==
    IF out.ok
    THEN [seg EXCEPT !.audioPath = SegmentPath(i),
                     !.audioDuration = {out.dur},
                     !.clipLen = {out.dur}]
    ELSE [seg EXCEPT !.audioPath = SegmentPath(i),
                     !.audioDuration = seg.duration,
                     !.error = "tts failed"]

\* The record generateAllSegments pushes for segment i (0-based).
SpokenSegment(seg, i, out) ==
    IF out.ok
    THEN [seg EXCEPT !.audioPath = SegmentPath(i),
                     !.audioDuration = {out.dur},
                     !.clipLen = {out.dur}]
    ELSE [seg EXCEPT !.audioPath = <<>>,
                     !.audioDuration = seg.duration,
                     !.error = "tts failed"]

\* await sleep(400) between the calls
TTS_DELAY_MS == 400

TtsRequest(i) == [ev |-> "request", segment |-> i, ms |-> 0]
TtsSleep(i) == [ev |-> "sleep", segment |-> i, ms |-> TTS_DELAY_MS]

\* What one iteration for segment i of n does, in order: the request, and
\* the sleep, which is the last statement of the try block and not taken
\* for the last segment.
TtsEvents(i, n, out) ==
    <<TtsRequest(i)>>
    \o (IF out.ok /\ i < n - 1 THEN <<TtsSleep(i)>> ELSE <<>>)

\* One iteration of the loop of generateAllSegments.
generateSegment ==
    /\ pc = "tts"
    /\ Len(results) < Len(segments)
    /\ LET i == Len(results)
           seg == segments[i + 1]
       IN  \E out \in SpeechOutcomes(The(seg.duration)) :
             /\ results' = Append(results, SpokenSegment(seg, i, out))
             /\ files' = IF out.wrote THEN files \cup {SegmentPath(i)}
                         ELSE files
             /\ ttsLog' = ttsLog \o TtsEvents(i, Len(segments), out)
    /\ UNCHANGED <<pc, env, videoDuration, accompanimentPath, attempt,
                   lastError, whisperLog, segments, idx, concatList,
                   currentTime, invoked, err>>

-----------------------------------------------------------------------------
(* SYNC_TIMING: syncAudioTiming *)

RATIO_LOW == 95
RATIO_HIGH == 105
RATIO_CAP == 150

\* Comparisons of ratio = a / d (IEEE: x / 0 is Infinity, 0 / 0 is NaN, and
\* every comparison with NaN is false) with pct / 100.
RatioIsNaN(a, d) == a = 0 /\ d = 0
RatioGE(a, d, pct) == ~RatioIsNaN(a, d) /\ (d = 0 \/ 100 * a >= pct * d)
RatioGT(a, d, pct) == ~RatioIsNaN(a, d) /\ (d = 0 \/ 100 * a > pct * d)
RatioLE(a, d, pct) == ~RatioIsNaN(a, d) /\ d # 0 /\ 100 * a <= pct * d

\* The chain with the bounds of the first branch exclusive.
SyncBranchExclusive(a, d) ==
    IF RatioGT(a, d, RATIO_LOW) /\ ~RatioGE(a, d, RATIO_HIGH)
          /\ ~RatioIsNaN(a, d) THEN "same"
    ELSE IF RatioGT(a, d, RATIO_HIGH) /\ RatioLE(a, d, RATIO_CAP) THEN "speed"
    ELSE IF RatioGT(a, d, RATIO_CAP) THEN "cap"
    ELSE "pad"

\* The if / else-if chain of syncAudioTiming.
SyncBranch(a, d) ==
    IF RatioGE(a, d, RATIO_LOW) /\ RatioLE(a, d, RATIO_HIGH) THEN "same"
    ELSE IF RatioGT(a, d, RATIO_HIGH) /\ RatioLE(a, d, RATIO_CAP) THEN "speed"
    ELSE IF RatioGT(a, d, RATIO_CAP) THEN "cap"
    ELSE "pad"

\* `Ratio was ${ratio.toFixed(2)}x ...`: the ratio in hundredths, or
\* InfinityText for the string "Infinity".
InfinityText == 0 - 1
WarningRatio(a, d) == IF d = 0 THEN InfinityText ELSE RatioToFixed2(a, d)

\* Length of the clip speedUpAudio writes: the input played at
\* atempo = speedFactor.toFixed(3) (speedFactor <= 1.5, so the loop that
\* chains atempo=2.0 filters never runs), in whole ticks.
SpeedUpLen(len, num, den) == (len * 1000) \div RatioToFixed3(num, den)

\* Length of the clip addSilence writes: apad=pad_dur=silenceDuration.toFixed(3).
AddSilenceLen(len, silenceDuration) == len + ToFixed3(silenceDuration)

HasAudioFile(seg, onDisk) == seg.audioPath # <<>> /\ seg.audioPath \in onDisk

\* The record syncAudioTiming pushes for segment i (0-based).
SyncedSegment(seg, i, onDisk) ==
    IF ~HasAudioFile(seg, onDisk) THEN seg
    ELSE LET d == The(seg.duration)
             a == The(seg.audioDuration)
             len == The(seg.clipLen)
             branch == SyncBranch(a, d)
         IN  IF branch = "same"
             THEN [seg EXCEPT !.adjustedAudioPath = seg.audioPath,
                              !.speedAdjustment = <<1, 1>>,
                              !.adjusted = {FALSE}]
             ELSE IF branch = "speed"
             THEN [seg EXCEPT !.adjustedAudioPath = AdjustedPath(i),
                              !.speedAdjustment = <<a, d>>,
                              !.adjusted = {TRUE},
                              !.clipLen = {SpeedUpLen(len, a, d)}]
             ELSE IF branch = "cap"
             THEN [seg EXCEPT !.adjustedAudioPath = AdjustedPath(i),
                              !.speedAdjustment = <<RATIO_CAP, 100>>,
                              !.adjusted = {TRUE},
                              !.warning = {WarningRatio(a, d)},
                              !.clipLen = {SpeedUpLen(len, RATIO_CAP, 100)}]
             ELSE [seg EXCEPT !.adjustedAudioPath = AdjustedPath(i),
                              !.speedAdjustment = <<1, 1>>,
                              !.adjusted = {TRUE},
                              !.silencePadding = {d - a},
                              !.clipLen = {AddSilenceLen(len, d - a)}]

\* generateAllSegments returns; dubVideo calls syncAudioTiming.
syncAudioTimingStart ==
    /\ pc = "tts"
    /\ Len(results) = Len(segments)
    /\ invoked' = invoked \cup {"syncAudioTiming"}
    /\ pc' = "sync"
    /\ segments' = results
    /\ results' = <<>>
    /\ UNCHANGED <<env, videoDuration, accompanimentPath, attempt, lastError,
                   whisperLog, ttsLog, idx, concatList, currentTime, files, err>>

\* One iteration of the loop of syncAudioTiming; ffmpeg (speedUpAudio,
\* addSilence) may fail, and the rejection is not caught.
syncSegment ==
    /\ pc = "sync"
    /\ Len(results) < Len(segments)
    /\ LET i == Len(results)
           seg == segments[i + 1]
           out == SyncedSegment(seg, i, files)
           usesFfmpeg == out.adjusted = {TRUE}
       IN  \E ok \in (IF usesFfmpeg THEN BOOLEAN ELSE {TRUE}) :
             IF ok
             THEN /\ results' = Append(results, out)
                  /\ files' = IF usesFfmpeg
                              THEN files \cup {out.adjustedAudioPath}
                              ELSE files
                  /\ UNCHANGED <<pc, err>>
             ELSE /\ Throw(IF out.silencePadding # {}
                           THEN "Silence padding failed"
                           ELSE "Speed adjustment failed", "")
                  /\ UNCHANGED <<results, files>>
    /\ UNCHANGED <<env, videoDuration, accompanimentPath, attempt, lastError,
                   whisperLog, ttsLog, segments, idx, concatList, currentTime,
                   invoked>>

-----------------------------------------------------------------------------
(* ASSEMBLE_TRACK: assembleAudioTrack *)

\* if (silenceBefore > 0.01), if (finalSilence > 0.01)
NeedsSilence(duration) == duration > Ms(10)

\* Length of the file generateSilence writes: ffmpeg -t duration.toFixed(3).
SilenceLen(duration) == ToFixed3(duration)

ConcatEntry(path, len) == [path |-> path, len |-> len]

HasAdjustedFile(seg, onDisk) ==
    seg.adjustedAudioPath # <<>> /\ seg.adjustedAudioPath \in onDisk

\* An iteration that adds the clip and never a silence before it.
SegmentEntriesNoSilence(seg, i, now) ==
    <<ConcatEntry(seg.adjustedAudioPath, The(seg.clipLen))>>

\* What one loop iteration of assembleAudioTrack adds to concatList for a
\* segment with audio: the silence before it, if any, then its clip.
SegmentEntries(seg, i, now) ==
    LET silenceBefore == seg.start - now
    IN  (IF NeedsSilence(silenceBefore)
         THEN <<ConcatEntry(SilencePath(i), SilenceLen(silenceBefore))>>
         ELSE <<>>)
        \o <<ConcatEntry(seg.adjustedAudioPath, The(seg.clipLen))>>

\* What assembleAudioTrack adds after the loop.
FinalEntries(total, now) ==
    LET finalSilence == total - now
    IN  IF NeedsSilence(finalSilence)
        THEN <<ConcatEntry(File("silence_final"), SilenceLen(finalSilence))>>
        ELSE <<>>

\* currentTime after a segment with audio was added.
TimeAfter(seg) == seg.end

RECURSIVE TotalLen(_)
TotalLen(list) ==
    IF list = <<>> THEN 0 ELSE Head(list).len + TotalLen(Tail(list))

PathsOf(list) == { list[k].path : k \in DOMAIN list }
SilencesOf(list) == { q \in PathsOf(list) : q[1] \in {"silence", "silence_final"} }

\* syncAudioTiming returns; dubVideo calls assembleAudioTrack, which makes
\* its temp directory.
assembleAudioTrackStart ==
    /\ pc = "sync"
    /\ Len(results) = Len(segments)
    /\ invoked' = invoked \cup {"assembleAudioTrack"}
    /\ pc' = "assemble"
    /\ segments' = results
    /\ results' = <<>>
    /\ idx' = 0
    /\ concatList' = <<>>
    /\ currentTime' = 0
    /\ files' = files \cup {File("temp")}
    /\ UNCHANGED <<env, videoDuration, accompanimentPath, attempt, lastError,
                   whisperLog, ttsLog, err>>

\* One iteration of the loop of assembleAudioTrack; generateSilence may
\* fail, and the rejection is not caught.
assembleSegment ==
    /\ pc = "assemble"
    /\ idx < Len(segments)
    /\ LET seg == segments[idx + 1]
       IN  IF ~HasAdjustedFile(seg, files)
           THEN /\ idx' = idx + 1
                /\ UNCHANGED <<pc, concatList, currentTime, files, err>>
           ELSE LET entries == SegmentEntries(seg, idx, currentTime)
                    silences == SilencesOf(entries)
                IN  \E ok \in (IF silences # {} THEN BOOLEAN ELSE {TRUE}) :
                      IF ok
                      THEN /\ concatList' = concatList \o entries
                           /\ files' = files \cup silences
                           /\ currentTime' = TimeAfter(seg)
                           /\ idx' = idx + 1
                           /\ UNCHANGED <<pc, err>>
                      ELSE /\ Throw("Silence generation failed", "")
                           /\ UNCHANGED <<concatList, currentTime, files, idx>>
    /\ UNCHANGED <<env, videoDuration, accompanimentPath, attempt, lastError,
                   whisperLog, ttsLog, segments, results, invoked>>

\* After the loop: the final silence and the concat list file.
assembleFinalSilence ==
    /\ pc = "assemble"
    /\ idx = Len(segments)
    /\ LET entries == FinalEntries(videoDuration, currentTime)
       IN  \E ok \in (IF entries # <<>> THEN BOOLEAN ELSE {TRUE}) :
             IF ok
             THEN /\ concatList' = concatList \o entries
                  /\ files' = files \cup SilencesOf(entries)
                                    \cup {File("concat_list.txt")}
                  /\ pc' = "concat"
                  /\ UNCHANGED err
             ELSE /\ Throw("Silence generation failed", "")
                  /\ UNCHANGED <<concatList, files>>
    /\ UNCHANGED <<env, videoDuration, accompanimentPath, attempt, lastError,
                   whisperLog, ttsLog, segments, results, idx, currentTime, invoked>>

\* Files left after STEP 4 of assembleAudioTrack: every file of concatList,
\* the concat list and the temp directory are removed.
AfterCleanup(onDisk, list) ==
    (onDisk \ PathsOf(list)) \ {File("concat_list.txt"), File("temp")}

\* concatenateAudio, the clean-up, the return; dubVideo calls
\* replaceAudioTrack.
concatenateAudio ==
    /\ pc = "concat"
    /\ \E ok \in BOOLEAN :
         IF ok
         THEN /\ files' = AfterCleanup(files \cup {File("dubbed-audio.mp3")},
                                       concatList)
              /\ pc' = "remux"
              /\ invoked' = invoked \cup {"replaceAudioTrack"}
              /\ UNCHANGED err
         ELSE /\ Throw("Concatenation failed", "")
              /\ UNCHANGED <<files, invoked>>
    /\ UNCHANGED <<env, videoDuration, accompanimentPath, attempt, lastError,
                   whisperLog, ttsLog, segments, results, idx, concatList,
                   currentTime>>

-----------------------------------------------------------------------------
(* REMUX: replaceAudioTrack, and the return of dubVideo *)

replaceAudioTrack ==
    /\ pc = "remux"
    /\ \E ok \in BOOLEAN :
         IF File("video") \notin files
         THEN /\ Throw("Video file not found", "")
              /\ UNCHANGED files
         ELSE IF File("dubbed-audio.mp3") \notin files
         THEN /\ Throw("Audio file not found", "")
              /\ UNCHANGED files
         ELSE IF accompanimentPath # <<>> /\ accompanimentPath \notin files
         THEN /\ Throw("Accompaniment file not found", "")
              /\ UNCHANGED files
         ELSE IF ok
         THEN /\ files' = files \cup {File("dubbed-video.mp4")}
              /\ pc' = "done"
              /\ UNCHANGED err
         ELSE /\ Throw("Audio replacement failed", "")
              /\ UNCHANGED files
    /\ UNCHANGED <<env, videoDuration, accompanimentPath, attempt, lastError,
                   whisperLog, ttsLog, segments, results, idx, concatList,
                   currentTime, invoked>>

-----------------------------------------------------------------------------
(* Specification of the dubbing pipeline *)

OcrIdle ==
    /\ opc = "idle"
    /\ blocks = 0
    /\ batchStart = 0
    /\ allOverlays = 0
    /\ filtered = <<>>
    /\ pending = <<>>
    /\ hcall = <<>>
    /\ batchLog = <<>>
    /\ oret = <<>>

TransIdle ==
    /\ tpc = "idle"
    /\ tsegment = <<>>
    /\ tanswer = <<>>
    /\ tenglish = <<>>

FeedIdle ==
    /\ activeTab = "idle"
    /\ feedPosts = {}
    /\ offset = 0
    /\ hasMore = FALSE
    /\ initialLoading = FALSE
    /\ loadingMoreRef = FALSE
    /\ effectTab = "idle"
    /\ observerClosure = <<>>
    /\ observing = FALSE
    /\ firstPageFetches = {}
    /\ loadMoreFetches = <<>>
    /\ lastFire = "none"

MainIdle ==
    /\ mpc = "idle"
    /\ ci = FALSE
    /\ posts = <<>>
    /\ sourceLimit = <<>>
    /\ mi = 0
    /\ sourceAccepted = 0
    /\ videoCount = 0
    /\ accepted = <<>>
    /\ rejected = <<>>
    /\ errors = <<>>
    /\ mlog = <<>>

WrapIdle ==
    /\ wpc = "idle"
    /\ words = <<>>
    /\ boxWidth = 0
    /\ boxHeight = 0
    /\ fontSize = 0
    /\ lines = <<>>

ImageIdle ==
    /\ ipc = "idle"
    /\ qwenKey = FALSE
    /\ overlayCount = 0
    /\ translatedPath = <<>>
    /\ finalImagePath = <<>>
    /\ validation = <<>>
    /\ ifiles = {}
    /\ icalls = <<>>
    /\ ierr = <<>>

Init ==
    /\ pc = "start"
    /\ env \in [openai : BOOLEAN, eleven : BOOLEAN, demucs : BOOLEAN]
    /\ videoDuration = 0
    /\ accompanimentPath = <<>>
    /\ attempt = 0
    /\ lastError = <<>>
    /\ whisperLog = <<>>
    /\ ttsLog = <<>>
    /\ segments = <<>>
    /\ results = <<>>
    /\ idx = 0
    /\ concatList = <<>>
    /\ currentTime = 0
    /\ files \in {{File("video")}, {}}
    /\ invoked = {}
    /\ err = <<>>
    /\ ImageIdle
    /\ OcrIdle
    /\ WrapIdle
    /\ MainIdle
    /\ TransIdle
    /\ FeedIdle

Next ==
    \/ (dubVideoStart /\ UNCHANGED notDubVars)
    \/ (extractAudio /\ UNCHANGED notDubVars)
    \/ (isDemucsInstalled /\ UNCHANGED notDubVars)
    \/ (extractHighQualityAudio /\ UNCHANGED notDubVars)
    \/ (separateAudio /\ UNCHANGED notDubVars)
    \/ (transcribeAudioStart /\ UNCHANGED notDubVars)
    \/ (transcribeAttempt /\ UNCHANGED notDubVars)
    \/ (transcribeExhausted /\ UNCHANGED notDubVars)
    \/ (checkSegments /\ UNCHANGED notDubVars)
    \/ (translateSegmentsStart /\ UNCHANGED notDubVars)
    \/ (translateSegment /\ UNCHANGED notDubVars)
    \/ (generateAllSegmentsStart /\ UNCHANGED notDubVars)
    \/ (generateSegment /\ UNCHANGED notDubVars)
    \/ (syncAudioTimingStart /\ UNCHANGED notDubVars)
    \/ (syncSegment /\ UNCHANGED notDubVars)
    \/ (assembleAudioTrackStart /\ UNCHANGED notDubVars)
    \/ (assembleSegment /\ UNCHANGED notDubVars)
    \/ (assembleFinalSilence /\ UNCHANGED notDubVars)
    \/ (concatenateAudio /\ UNCHANGED notDubVars)
    \/ (replaceAudioTrack /\ UNCHANGED notDubVars)

Spec == Init /\ [][Next]_vars

-----------------------------------------------------------------------------
(* The per-image flow of uploadAllImagesToSupabase: paths and callees *)

OVERLAY_THRESHOLD == 5
QUALITY_THRESHOLD == 80

\* Largest number of overlays analyzeImageWithGoogle returns in the model.
MaxOverlays == 6

LocalImage == File("image")
EditedImage == File("edited-image")
RetryImage == File("retry-image")
OverlayImage == File("overlay-image")

\* What a callee hands back: the path it returns, whether it wrote its
\* output file, whether it threw to its caller.
\* What a call came to: the value returned, whether the output file was
\* written, whether the call threw, and how many requests it sent to
\* external services.
Returned(path, wrote) ==
    [ret |-> path, wrote |-> wrote, threw |-> FALSE, requests |-> 0]
Thrown == [ret |-> <<>>, wrote |-> FALSE, threw |-> TRUE, requests |-> 0]

\* Where a run of editImageWithQwen may stop: reading the image, the edit
\* request, a response without choices or without an image URL, the
\* download, the write of the output file; or nowhere (ok).
EditOutcomes ==
    {"readFailed", "requestFailed", "noChoices", "noImageUrl",
     "downloadFailed", "writeFailed", "ok"}

\* editImageWithQwen with the download and the write outside its try block.
editImageWithQwenUncaught(hasKey, imagePath, n, outputPath, outcome) ==
    IF ~hasKey THEN Returned(imagePath, FALSE)
    ELSE IF n = 0 THEN Returned(imagePath, FALSE)
    ELSE IF outcome = "ok" THEN Returned(outputPath, TRUE)
    ELSE IF outcome \in {"downloadFailed", "writeFailed"} THEN Thrown
    ELSE Returned(imagePath, FALSE)

\* Requests editImageWithQwen has sent when it stops at outcome: none
\* before the image is read, the edit request, then the download.
EditRequests(outcome) ==
    IF outcome = "readFailed" THEN 0
    ELSE IF outcome \in {"requestFailed", "noChoices", "noImageUrl"} THEN 1
    ELSE 2

\* editImageWithQwen(imagePath, overlays, outputPath) with n overlays
\* (n = 0: the list is empty or missing).
editImageWithQwen(hasKey, imagePath, n, outputPath, outcome) ==
    IF ~hasKey THEN Returned(imagePath, FALSE)
    ELSE IF n = 0 THEN Returned(imagePath, FALSE)
    ELSE IF outcome = "ok"
    THEN [Returned(outputPath, TRUE) EXCEPT !.requests = EditRequests(outcome)]
    ELSE [Returned(imagePath, FALSE) EXCEPT !.requests = EditRequests(outcome)]

\* Where a run of overlayTranslatedText may stop: sharp's metadata, the
\* canvas drawing (an overlay without text), the composite; or nowhere.
OverlayOutcomes == {"metadataFailed", "drawFailed", "compositeFailed", "ok"}

\* overlayTranslatedText without the check of its overlay list.
overlayTranslatedTextUnchecked(imagePath, n, outputPath, outcome) ==
    IF imagePath = <<>> \/ outputPath = <<>>
    THEN Returned(imagePath, FALSE)
    ELSE IF outcome = "ok" THEN Returned(outputPath, TRUE)
    ELSE Returned(imagePath, FALSE)

\* overlayTranslatedText(imagePath, overlays, outputPath) with n overlays
\* (n = 0: the list is empty or missing); it calls no external service.
overlayTranslatedText(imagePath, n, outputPath, outcome) ==
    IF imagePath = <<>> \/ outputPath = <<>> \/ n = 0
    THEN Returned(imagePath, FALSE)
    ELSE IF outcome = "ok" THEN Returned(outputPath, TRUE)
    ELSE Returned(imagePath, FALSE)

\* What the validator's call may end with: the image cannot be read, the
\* API call throws, the answer holds no JSON object, the JSON does not
\* parse, or a verdict.
Verdicts ==
    [kind : {"verdict"}, all_translated : BOOLEAN,
     untranslated_chinese : BOOLEAN, quality_score : {79, 80},
     gibberish_detected : BOOLEAN]
NoVerdict(kind) ==
    [kind |-> kind, all_translated |-> FALSE, untranslated_chinese |-> FALSE,
     quality_score |-> 0, gibberish_detected |-> FALSE]
ValidationOutcomes ==
    Verdicts \cup { NoVerdict(k) :
                      k \in {"readFailed", "apiFailed", "noJson", "badJson"} }

\* A validator that reports failure whenever it reaches no verdict.
validateImageTranslationFailClosed(n, v) ==
    IF n = 0 THEN TRUE
    ELSE IF v.kind # "verdict" THEN FALSE
    ELSE /\ v.all_translated
         /\ v.quality_score >= QUALITY_THRESHOLD
         /\ ~v.gibberish_detected

\* validateImageTranslation(editedImagePath, expectedOverlays).success
validateImageTranslation(n, v) ==
    IF n = 0 THEN TRUE
    ELSE IF v.kind # "verdict" THEN TRUE
    ELSE /\ v.all_translated
         /\ v.quality_score >= QUALITY_THRESHOLD
         /\ ~v.gibberish_detected

\* An entry of icalls: the callee, its arguments, what it handed back and,
\* for the validator, the success it reported.
Call(fn, imagePath, outputPath, r, success) ==
    [fn |-> fn, imagePath |-> imagePath, outputPath |-> outputPath,
     ret |-> r.ret, wrote |-> r.wrote, threw |-> r.threw,
     requests |-> r.requests, success |-> success]

\* translatedPath !== localImagePath && fs.existsSync(translatedPath)
ProducedNewFile(path, onDisk) == path # LocalImage /\ path \in onDisk

-----------------------------------------------------------------------------
(* The per-image flow: one loop iteration of uploadAllImagesToSupabase *)

IThrow(e) ==
    /\ ipc' = "threw"
    /\ ierr' = <<e>>

\* A routing that sends every image with overlays to the generative edit.
RouteNeverDense(n) ==
    IF n > 0 THEN "edit" ELSE "upload"

\* STEP B: the route taken for n overlays.
Route(n) ==
    IF n > OVERLAY_THRESHOLD THEN "dense"
    ELSE IF n > 0 THEN "edit"
    ELSE "upload"

\* STEP A and the branch of STEP B.
analyzeImage ==
    /\ ipc = "analyze"
    /\ \E n \in 0..MaxOverlays :
         /\ overlayCount' = n
         /\ ipc' = Route(n)
    /\ icalls' = Append(icalls,
                        Call("analyzeImageWithGoogle", LocalImage, <<>>,
                             Returned(<<>>, FALSE), TRUE))
    /\ UNCHANGED <<qwenKey, translatedPath, finalImagePath, validation,
                   ifiles, ierr>>

\* The dense route: the compositor directly.
compositorDense ==
    /\ ipc = "dense"
    /\ \E outcome \in OverlayOutcomes :
         LET r == overlayTranslatedText(LocalImage, overlayCount,
                                        OverlayImage, outcome)
         IN  /\ icalls' = Append(icalls, Call("overlayTranslatedText",
                                              LocalImage, OverlayImage, r,
                                              ~r.threw))
             /\ ifiles' = IF r.wrote THEN ifiles \cup {OverlayImage}
                          ELSE ifiles
             /\ IF r.threw
                THEN /\ IThrow("overlayTranslatedText")
                     /\ UNCHANGED finalImagePath
                ELSE /\ finalImagePath' = r.ret
                     /\ ipc' = "upload"
                     /\ UNCHANGED ierr
    /\ UNCHANGED <<qwenKey, overlayCount, translatedPath, validation>>

\* An edit attempt writing to outputPath, and the test that follows it.
EditAttempt(from, outputPath, thenValidate) ==
    /\ ipc = from
    /\ \E outcome \in EditOutcomes :
         LET r == editImageWithQwen(qwenKey, LocalImage, overlayCount,
                                    outputPath, outcome)
             onDisk == IF r.wrote THEN ifiles \cup {outputPath} ELSE ifiles
         IN  /\ icalls' = Append(icalls, Call("editImageWithQwen",
                                              LocalImage, outputPath, r,
                                              ~r.threw))
             /\ ifiles' = onDisk
             /\ IF r.threw
                THEN /\ IThrow("editImageWithQwen")
                     /\ UNCHANGED translatedPath
                ELSE /\ translatedPath' = r.ret
                     /\ ipc' = IF ProducedNewFile(r.ret, onDisk)
                               THEN thenValidate ELSE "fallback"
                     /\ UNCHANGED ierr
    /\ UNCHANGED <<qwenKey, overlayCount, finalImagePath, validation>>

\* A validation of translatedPath, and the branch on its result.
ValidateAttempt(from, onFailure) ==
    /\ ipc = from
    /\ \E v \in ValidationOutcomes :
         LET success == validateImageTranslation(overlayCount, v)
         IN  /\ validation' = <<success, v>>
             /\ icalls' = Append(icalls,
                                 Call("validateImageTranslation",
                                      translatedPath, <<>>,
                                      Returned(<<>>, FALSE), success))
             /\ IF success
                THEN /\ finalImagePath' = translatedPath
                     /\ ipc' = "upload"
                ELSE /\ ipc' = onFailure
                     /\ UNCHANGED finalImagePath
    /\ UNCHANGED <<qwenKey, overlayCount, translatedPath, ifiles, ierr>>

editFirst == EditAttempt("edit", EditedImage, "validate")
validateFirst == ValidateAttempt("validate", "retry")
\* A retry whose result is validated by the first validation again, so
\* that a failure retries once more.
editRetryAgain == EditAttempt("retry", RetryImage, "validate")
editRetry == EditAttempt("retry", RetryImage, "revalidate")
\* validateRetry without the fallback of its failure branch.
validateRetryNoFallback == ValidateAttempt("revalidate", "upload")
validateRetry == ValidateAttempt("revalidate", "fallback")

\* A fallback that composites over the rejected edit.
FallbackInputEdited == EditedImage

\* The image the fallback hands to the compositor.
FallbackInput == LocalImage

\* Any of the three fallbacks to the compositor, and finalImagePath =
\* translatedPath after it.
compositorFallback ==
    /\ ipc = "fallback"
    /\ \E outcome \in OverlayOutcomes :
         LET r == overlayTranslatedText(FallbackInput, overlayCount,
                                        OverlayImage, outcome)
         IN  /\ icalls' = Append(icalls, Call("overlayTranslatedText",
                                              FallbackInput, OverlayImage, r,
                                              ~r.threw))
             /\ ifiles' = IF r.wrote THEN ifiles \cup {OverlayImage}
                          ELSE ifiles
             /\ IF r.threw
                THEN /\ IThrow("overlayTranslatedText")
                     /\ UNCHANGED <<translatedPath, finalImagePath>>
                ELSE /\ translatedPath' = r.ret
                     /\ finalImagePath' = r.ret
                     /\ ipc' = "upload"
                     /\ UNCHANGED ierr
    /\ UNCHANGED <<qwenKey, overlayCount, validation>>

\* STEP C: read the final image and upload it.
uploadImage ==
    /\ ipc = "upload"
    /\ IF finalImagePath \notin ifiles
       THEN IThrow("ENOENT")
       ELSE /\ \E uploaded \in BOOLEAN :
                 ipc' = IF uploaded THEN "uploaded" ELSE "skipped"
            /\ UNCHANGED ierr
    /\ UNCHANGED <<qwenKey, overlayCount, translatedPath, finalImagePath,
                   validation, ifiles, icalls>>

DubIdle ==
    /\ pc = "idle"
    /\ env = [openai |-> FALSE, eleven |-> FALSE, demucs |-> FALSE]
    /\ videoDuration = 0
    /\ accompanimentPath = <<>>
    /\ attempt = 0
    /\ lastError = <<>>
    /\ whisperLog = <<>>
    /\ ttsLog = <<>>
    /\ segments = <<>>
    /\ results = <<>>
    /\ idx = 0
    /\ concatList = <<>>
    /\ currentTime = 0
    /\ files = {}
    /\ invoked = {}
    /\ err = <<>>

\* The image folder holds the image and, possibly, edited-, retry- and
\* overlay- files of previous runs (the listing filters them out).
InitImage ==
    /\ ipc = "analyze"
    /\ qwenKey \in BOOLEAN
    /\ overlayCount = 0
    /\ translatedPath = <<>>
    /\ finalImagePath = LocalImage
    /\ validation = <<>>
    /\ ifiles \in { {LocalImage} \cup stale :
                      stale \in SUBSET {EditedImage, RetryImage, OverlayImage} }
    /\ icalls = <<>>
    /\ ierr = <<>>
    /\ DubIdle
    /\ OcrIdle
    /\ WrapIdle
    /\ MainIdle
    /\ TransIdle
    /\ FeedIdle

NextImage ==
    \/ (analyzeImage /\ UNCHANGED notImgVars)
    \/ (compositorDense /\ UNCHANGED notImgVars)
    \/ (editFirst /\ UNCHANGED notImgVars)
    \/ (validateFirst /\ UNCHANGED notImgVars)
    \/ (editRetry /\ UNCHANGED notImgVars)
    \/ (validateRetry /\ UNCHANGED notImgVars)
    \/ (compositorFallback /\ UNCHANGED notImgVars)
    \/ (uploadImage /\ UNCHANGED notImgVars)

SpecImage == InitImage /\ [][NextImage]_vars

-----------------------------------------------------------------------------
(* The exported image functions called on their own, with any overlay list *)

MaxDirectCalls == 2

\* A caller holding an image and an overlay list of any length, empty
\* included, and an output directory that may hold files of earlier runs.
InitDirect ==
    /\ ipc = "direct"
    /\ qwenKey \in BOOLEAN
    /\ overlayCount \in 0 .. MaxOverlays
    /\ translatedPath = <<>>
    /\ finalImagePath = LocalImage
    /\ validation = <<>>
    /\ ifiles \in { {LocalImage} \cup stale :
                      stale \in SUBSET {EditedImage, OverlayImage} }
    /\ icalls = <<>>
    /\ ierr = <<>>
    /\ DubIdle
    /\ OcrIdle
    /\ WrapIdle
    /\ MainIdle
    /\ TransIdle
    /\ FeedIdle

\* A call of a function f(imagePath, overlays, outputPath) and what it
\* leaves: the value returned, and the output file if it wrote one.
DirectCall(fn, outputPath, r) ==
    /\ ipc = "direct"
    /\ Len(icalls) < MaxDirectCalls
    /\ icalls' = Append(icalls, Call(fn, LocalImage, outputPath, r, ~r.threw))
    /\ ifiles' = IF r.wrote THEN ifiles \cup {outputPath} ELSE ifiles
    /\ translatedPath' = r.ret
    /\ IF r.threw THEN IThrow(fn) ELSE UNCHANGED <<ipc, ierr>>
    /\ UNCHANGED <<qwenKey, overlayCount, finalImagePath, validation>>

directEdit ==
    \E outcome \in EditOutcomes :
        DirectCall("editImageWithQwen", EditedImage,
                   editImageWithQwen(qwenKey, LocalImage, overlayCount,
                                     EditedImage, outcome))

directOverlay ==
    \E outcome \in OverlayOutcomes :
        DirectCall("overlayTranslatedText", OverlayImage,
                   overlayTranslatedText(LocalImage, overlayCount,
                                         OverlayImage, outcome))

NextDirect ==
    \/ (directEdit /\ UNCHANGED notImgVars)
    \/ (directOverlay /\ UNCHANGED notImgVars)

SpecDirect == InitDirect /\ [][NextDirect]_vars

-----------------------------------------------------------------------------
(* OCR classifier: callHaikuForOverlays *)

(* The text after the prefilled '{"overlays": [' is a sequence of tokens:  *)
(*   "O"  an overlay object in valid JSON                                  *)
(*   "Q"  an overlay object whose strings are in single quotes             *)
(*   "P"  an overlay object cut off before its closing brace               *)
(*   ","  "]"  "}"  the punctuation between and after the objects          *)
(*   "X"  text that is no JSON (prose, a markdown fence)                   *)
Tokens == {"O", "Q", "P", ",", "]", "}", "X"}

MaxTokens == 4

HaikuResponses == UNION { [1 .. n -> Tokens] : n \in 0 .. MaxTokens }

\* The tokens form a comma-separated list of valid objects.
IsItemList(body) ==
    \/ body = <<>>
    \/ /\ Len(body) % 2 = 1
       /\ \A k \in DOMAIN body :
             body[k] = (IF k % 2 = 1 THEN "O" ELSE ",")

\* JSON.parse('{"overlays": [' + text): <<>> when it throws, else
\* <<overlays.length>>.
JsonParse(text) ==
    LET n == Len(text)
    IN  IF /\ n >= 2
           /\ text[n] = "}"
           /\ text[n - 1] = "]"
           /\ IsItemList(SubSeq(text, 1, n - 2))
        THEN <<(n - 1) \div 2>>
        ELSE <<>>

\* .replace(/,(\s*[}\]])/g, '$1'): a comma before a closing bracket or brace
\* goes.
RECURSIVE DropTrailingCommas(_)
DropTrailingCommas(text) ==
    IF text = <<>> THEN <<>>
    ELSE IF Head(text) = "," /\ Len(text) > 1 /\ text[2] \in {"]", "}"}
    THEN DropTrailingCommas(Tail(text))
    ELSE <<Head(text)>> \o DropTrailingCommas(Tail(text))

\* The three quote replacements: single-quoted strings become double-quoted.
NormalizeQuotes(text) ==
    [k \in DOMAIN text |-> IF text[k] = "Q" THEN "O" ELSE text[k]]

\* cleanedJson
Cleanup(text) == NormalizeQuotes(DropTrailingCommas(text))

HasClosingBrace(token) == token \in {"O", "Q", "}"}

\* .replace(/,\s*\{[^}]*$/, ''): from the first comma that is followed by an
\* opening brace with no closing brace up to the end, everything goes.
CutPoints(text) ==
    { i \in 1 .. Len(text) - 1 :
        /\ text[i] = ","
        /\ text[i + 1] = "P"
        /\ \A j \in i + 2 .. Len(text) : ~HasClosingBrace(text[j]) }

DropCutObject(text) ==
    IF CutPoints(text) = {} THEN text
    ELSE LET i == CHOOSE c \in CutPoints(text) :
                     \A d \in CutPoints(text) : c <= d
         IN  SubSeq(text, 1, i - 1)

Count(text, token) == Cardinality({ k \in DOMAIN text : text[k] = token })
Repeat(token, n) == [k \in 1 .. n |-> token]
Max0(n) == IF n > 0 THEN n ELSE 0

\* truncated, with the brackets and braces that are still open closed; the
\* prefix opens one of each and a cut-off object opens a brace.
Repair(cleaned) ==
    LET truncated == DropCutObject(cleaned)
        openBrackets == 1 - Count(truncated, "]")
        openBraces == 1 + Count(truncated, "P") - Count(truncated, "}")
    IN  truncated \o Repeat("]", Max0(openBrackets))
                  \o Repeat("}", Max0(openBraces))

\* What a call leaves: the attempts made, in order, and the value returned
\* (<<>> for null).
HaikuResult(attempts, result) == [attempts |-> attempts, result |-> result]

\* callHaikuForOverlays that gives up after the cleanup parse.
callHaikuNoRepair(text) ==
    IF JsonParse(text) # <<>>
    THEN HaikuResult(<<"strict">>, JsonParse(text))
    ELSE IF JsonParse(Cleanup(text)) # <<>>
    THEN HaikuResult(<<"strict", "cleanup">>, JsonParse(Cleanup(text)))
    ELSE HaikuResult(<<"strict", "cleanup">>, <<>>)

\* callHaikuForOverlays, from the response text on.
callHaikuForOverlays(text) ==
    IF JsonParse(text) # <<>>
    THEN HaikuResult(<<"strict">>, JsonParse(text))
    ELSE IF JsonParse(Cleanup(text)) # <<>>
    THEN HaikuResult(<<"strict", "cleanup">>, JsonParse(Cleanup(text)))
    ELSE HaikuResult(<<"strict", "cleanup", "repair">>,
                     JsonParse(Repair(Cleanup(text))))

-----------------------------------------------------------------------------
(* OCR classifier: analyzeImageWithGoogle *)

BATCH_SIZE == 15

\* Numbers of text blocks left after the tiny blocks are skipped: none, one,
\* a full batch, a full batch and one more.
BlockCounts == {0, 1, BATCH_SIZE, BATCH_SIZE + 1}

\* A catch block that passes the error on.
OcrRethrow ==
    /\ opc' = "raised"
    /\ oret' = <<>>

\* catch (error) { return { overlays: [] } }
OcrCatch ==
    /\ opc' = "returned"
    /\ oret' = <<0>>

\* STEP 1: documentTextDetection.
visionCall ==
    /\ opc = "vision"
    /\ \E outcome \in {"throws", "noText", "pages"} :
         IF outcome = "throws" THEN OcrCatch
         ELSE IF outcome = "noText"
         THEN opc' = "returned" /\ oret' = <<0>>
         ELSE opc' = "metadata" /\ UNCHANGED oret
    /\ UNCHANGED <<blocks, batchStart, allOverlays, filtered, hcall, pending,
                   batchLog>>

\* sharp's metadata and the extraction of the text blocks.
readMetadata ==
    /\ opc = "metadata"
    /\ \E ok \in BOOLEAN, n \in BlockCounts :
         IF ~ok THEN OcrCatch /\ UNCHANGED blocks
         ELSE /\ blocks' = n
              /\ IF n = 0
                 THEN opc' = "returned" /\ oret' = <<0>>
                 ELSE opc' = "read" /\ UNCHANGED oret
    /\ UNCHANGED <<batchStart, allOverlays, filtered, hcall, pending, batchLog>>

\* STEP 2: the image is read for the classifier.
readImage ==
    /\ opc = "read"
    /\ \E ok \in BOOLEAN :
         IF ok THEN opc' = "single" /\ UNCHANGED oret ELSE OcrCatch
    /\ UNCHANGED <<blocks, batchStart, allOverlays, filtered, hcall, pending,
                   batchLog>>

\* callHaikuForOverlays up to its await: the request is sent, and the
\* classifier answers with some text or the call throws.
HaikuRequest(parsing) ==
    \E answered \in BOOLEAN, text \in HaikuResponses :
        IF answered
        THEN /\ pending' = <<text>>
             /\ hcall' = <<>>
             /\ opc' = parsing
             /\ UNCHANGED oret
        ELSE /\ OcrCatch
             /\ UNCHANGED <<pending, hcall>>

\* The single call of callHaikuForOverlays over all text blocks.
singleRequest ==
    /\ opc = "single"
    /\ HaikuRequest("singleParse")
    /\ UNCHANGED <<blocks, batchStart, allOverlays, filtered, batchLog>>

\* The answer to the single call is parsed; null starts the batched
\* fallback.
singleParse ==
    /\ opc = "singleParse"
    /\ LET h == callHaikuForOverlays(pending[1])
       IN  /\ hcall' = <<h>>
           /\ filtered' = h.result
           /\ opc' = IF h.result # <<>> THEN "map" ELSE "batch"
    /\ pending' = <<>>
    /\ batchStart' = 0
    /\ allOverlays' = 0
    /\ batchLog' = <<>>
    /\ UNCHANGED <<blocks, oret>>

\* One iteration of the batched fallback, up to the await.
batchRequest ==
    /\ opc = "batch"
    /\ batchStart < blocks
    /\ HaikuRequest("batchParse")
    /\ UNCHANGED <<blocks, batchStart, allOverlays, filtered, batchLog>>

\* textBlocks.slice(start, start + BATCH_SIZE): where the batch starts and
\* how many blocks it holds.
Batch(start) ==
    [start |-> start,
     size |-> IF start + BATCH_SIZE <= blocks THEN BATCH_SIZE
              ELSE blocks - start]

\* A batched fallback that gives up at the first batch no parse recovers.
batchParseStopsOnNull ==
    /\ opc = "batchParse"
    /\ LET h == callHaikuForOverlays(pending[1])
       IN  /\ hcall' = <<h>>
           /\ batchLog' = Append(batchLog, [batch |-> Batch(batchStart),
                                            result |-> h.result])
           /\ allOverlays' = IF h.result # <<>>
                             THEN allOverlays + h.result[1]
                             ELSE allOverlays
           /\ batchStart' = IF h.result # <<>>
                            THEN batchStart + BATCH_SIZE
                            ELSE batchStart + BATCH_SIZE + blocks
    /\ pending' = <<>>
    /\ opc' = "batch"
    /\ UNCHANGED <<blocks, filtered, oret>>

\* The answer for a batch is parsed and its overlays, if any, are added.
batchParse ==
    /\ opc = "batchParse"
    /\ LET h == callHaikuForOverlays(pending[1])
       IN  /\ hcall' = <<h>>
           /\ batchLog' = Append(batchLog, [batch |-> Batch(batchStart),
                                            result |-> h.result])
           /\ allOverlays' = IF h.result # <<>>
                             THEN allOverlays + h.result[1]
                             ELSE allOverlays
    /\ pending' = <<>>
    /\ batchStart' = batchStart + BATCH_SIZE
    /\ opc' = "batch"
    /\ UNCHANGED <<blocks, filtered, oret>>

\* The end of the batched fallback, if it ran, and STEP 3: the overlays
\* whose index names a text block are mapped and returned.
mapOverlays ==
    /\ \/ opc = "map"
       \/ opc = "batch" /\ batchStart >= blocks
    /\ LET given == IF opc = "batch" THEN <<allOverlays>> ELSE filtered
       IN  /\ filtered' = given
           /\ \E ok \in BOOLEAN, kept \in 0 .. given[1] :
                IF ok THEN opc' = "returned" /\ oret' = <<kept>>
                ELSE OcrCatch
    /\ UNCHANGED <<blocks, batchStart, allOverlays, hcall, pending, batchLog>>

InitOcr ==
    /\ opc = "vision"
    /\ blocks = 0
    /\ batchStart = 0
    /\ allOverlays = 0
    /\ filtered = <<>>
    /\ pending = <<>>
    /\ hcall = <<>>
    /\ batchLog = <<>>
    /\ oret = <<>>
    /\ DubIdle
    /\ ImageIdle
    /\ WrapIdle
    /\ MainIdle
    /\ TransIdle
    /\ FeedIdle

NextOcr ==
    \/ (visionCall /\ UNCHANGED notOcrVars)
    \/ (readMetadata /\ UNCHANGED notOcrVars)
    \/ (readImage /\ UNCHANGED notOcrVars)
    \/ (singleRequest /\ UNCHANGED notOcrVars)
    \/ (singleParse /\ UNCHANGED notOcrVars)
    \/ (batchRequest /\ UNCHANGED notOcrVars)
    \/ (batchParse /\ UNCHANGED notOcrVars)
    \/ (mapOverlays /\ UNCHANGED notOcrVars)

SpecOcr == InitOcr /\ [][NextOcr]_vars

-----------------------------------------------------------------------------
(* Compositor: the text of one overlay is fitted into its box *)

PADDING == 8
MIN_FONT == 10

MaxWords == 3

\* Lengths of a word, in characters; text.split(' ') gives an empty word for
\* an empty text and between two spaces.
WordLens == {0, 1, 4, 12}

\* text.split(' '): at least one word.
TextWords == UNION { [1 .. n -> WordLens] : n \in 1 .. MaxWords }

\* Box sizes in pixels, as the percentages of the overlay and the size of
\* the image give them.
BoxWidths == {0, 20, 60, 200}
BoxHeights == {0, 15, 30, 40, 60}

\* Width of a character of the bold font, in tenths of the font size.
CharAdvance == 6

\* ctx.measureText(s).width, in tenths of a pixel, of a string of so many
\* characters at the font size.
MeasureText(chars, size) == chars * size * CharAdvance

maxWidth == boxWidth - PADDING * 2

\* ctx.measureText(test).width > maxWidth
TooWide(chars, size) == MeasureText(chars, size) > maxWidth * 10

\* words.forEach of wordWrap; cur and the entries of wrapped are lengths in
\* characters, 0 being the empty string.
RECURSIVE WrapWords(_, _, _, _)
WrapWords(ws, cur, wrapped, size) ==
    IF ws = <<>>
    THEN IF cur # 0 THEN Append(wrapped, cur) ELSE wrapped
    ELSE LET w == Head(ws)
             test == IF cur # 0 THEN cur + 1 + w ELSE w
         IN  IF TooWide(test, size) /\ cur # 0
             THEN WrapWords(Tail(ws), w, Append(wrapped, cur), size)
             ELSE WrapWords(Tail(ws), test, wrapped, size)

wordWrap(size) == WrapWords(words, 0, <<>>, size)

\* lines.length * lineHeight > boxHeight, with lineHeight = fontSize * 1.2
TextTooHigh == Len(lines) * fontSize * 12 > boxHeight * 10

\* An overlay whose box has no width or no height is skipped.
skipOverlay ==
    /\ wpc = "start"
    /\ boxWidth <= 0 \/ boxHeight <= 0
    /\ wpc' = "skipped"
    /\ UNCHANGED <<words, boxWidth, boxHeight, fontSize, lines>>

\* The first font size, half the height of the box but not under the
\* minimum, and the first wrap.
fitStart ==
    /\ wpc = "start"
    /\ ~(boxWidth <= 0 \/ boxHeight <= 0)
    /\ fontSize' = (IF boxHeight \div 2 > MIN_FONT THEN boxHeight \div 2
                    ELSE MIN_FONT)
    /\ lines' = wordWrap(fontSize')
    /\ wpc' = "fit"
    /\ UNCHANGED <<words, boxWidth, boxHeight>>

\* A shrink loop that goes on under the minimum for as long as the text is
\* too high.
shrinkFontBelowMinimum ==
    /\ wpc = "fit"
    /\ TextTooHigh
    /\ fontSize' = fontSize - 1
    /\ lines' = wordWrap(fontSize')
    /\ UNCHANGED <<wpc, words, boxWidth, boxHeight>>

\* One iteration of the shrink loop.
shrinkFont ==
    /\ wpc = "fit"
    /\ TextTooHigh /\ fontSize > MIN_FONT
    /\ fontSize' = fontSize - 1
    /\ lines' = wordWrap(fontSize')
    /\ UNCHANGED <<wpc, words, boxWidth, boxHeight>>

\* The loop is left and the lines are drawn at the final font size.
drawLines ==
    /\ wpc = "fit"
    /\ ~(TextTooHigh /\ fontSize > MIN_FONT)
    /\ wpc' = "drawn"
    /\ UNCHANGED <<words, boxWidth, boxHeight, fontSize, lines>>

InitWrap ==
    /\ wpc = "start"
    /\ words \in TextWords
    /\ boxWidth \in BoxWidths
    /\ boxHeight \in BoxHeights
    /\ fontSize = 0
    /\ lines = <<>>
    /\ DubIdle
    /\ ImageIdle
    /\ OcrIdle
    /\ MainIdle
    /\ TransIdle
    /\ FeedIdle

NextWrap ==
    \/ (skipOverlay /\ UNCHANGED notWrapVars)
    \/ (fitStart /\ UNCHANGED notWrapVars)
    \/ (shrinkFont /\ UNCHANGED notWrapVars)
    \/ (drawLines /\ UNCHANGED notWrapVars)

SpecWrap == InitWrap /\ [][NextWrap]_vars

\* forEach runs its callback to the end without yielding: a step that can
\* be taken is taken.
SpecWrapFair == InitWrap /\ [][NextWrap]_vars /\ WF_vars(NextWrap)

-----------------------------------------------------------------------------
(* main: the loop over the posts of one source *)

MAX_VIDEOS == 7
MIN_SCORE == 40

MaxPosts == 3

\* What the services and the files do for a post, in the order main meets
\* them; "ok" is a post nothing goes wrong for.
VideoFates == {"noVideoUrl", "downloadThrows", "probeThrows", "tooLong",
               "dubThrows", "uploadThrows"}
NormalFates == {"imageListThrows"}
CommonFates == {"dbThrows", "duplicate", "filterThrows", "filteredOut",
                "translateThrows", "ok"}

\* Scores the filter gives a post it finds relevant.
Scores == {MIN_SCORE, 90}

PostInputs ==
    { p \in [type : {"video", "normal"},
              fate : VideoFates \cup NormalFates \cup CommonFates,
              score : Scores] :
        /\ p.type = "video" => p.fate \notin NormalFates
        /\ p.type = "normal" => p.fate \notin VideoFates
        /\ p.fate # "ok" => p.score = MIN_SCORE }

Ended(result, reached) == [result |-> result, reached |-> reached]

\* if (videoCount >= MAX_VIDEOS), MAX_VIDEOS being Infinity off CI
VideoCapReached == ci /\ videoCount >= MAX_VIDEOS

\* The body of the try block for one post: how it ends (a push to accepted
\* or to rejected, or a throw) and the step it ends in.
TryBody(post) ==
    IF post.fate = "dbThrows" THEN Ended("threw", "duplicateCheck")
    ELSE IF post.fate = "duplicate" THEN Ended("rejected", "duplicateCheck")
    ELSE IF post.fate = "filterThrows" THEN Ended("threw", "filter")
    ELSE IF post.fate = "filteredOut" THEN Ended("rejected", "filter")
    ELSE IF post.fate = "translateThrows" THEN Ended("threw", "translate")
    ELSE IF post.type = "video"
    THEN IF VideoCapReached THEN Ended("rejected", "videoCap")
         ELSE IF post.fate = "noVideoUrl" THEN Ended("threw", "videoUrl")
         ELSE IF post.fate = "downloadThrows" THEN Ended("threw", "download")
         ELSE IF post.fate = "probeThrows" THEN Ended("threw", "duration")
         ELSE IF post.fate = "tooLong" THEN Ended("rejected", "duration")
         ELSE IF post.fate = "dubThrows" THEN Ended("threw", "dubVideo")
         ELSE IF post.fate = "uploadThrows" THEN Ended("threw", "uploadVideo")
         ELSE Ended("accepted", "push")
    ELSE IF post.fate = "imageListThrows" THEN Ended("threw", "imageList")
         ELSE Ended("accepted", "push")

\* A catch block that lets the error end main.
CatchRethrow(k) ==
    /\ mpc' = "failed"
    /\ UNCHANGED <<mi, errors>>

\* catch (err) { results.errors.push(...) }, and the loop goes on.
Catch(k) ==
    /\ errors' = Append(errors, k)
    /\ mi' = mi + 1
    /\ UNCHANGED mpc

\* if (sourceLimit && sourceAccepted >= sourceLimit)
LimitReached ==
    /\ sourceLimit # <<>>
    /\ sourceLimit[1] # 0
    /\ sourceAccepted >= sourceLimit[1]

\* One iteration of the loop over the posts.
processPost ==
    /\ mpc = "loop"
    /\ mi < Len(posts)
    /\ ~LimitReached
    /\ LET k == mi + 1
           r == TryBody(posts[k])
       IN  /\ mlog' = Append(mlog, [post |-> k, reached |-> r.reached,
                                    threw |-> r.result = "threw"])
           /\ IF r.result = "threw"
              THEN /\ Catch(k)
                   /\ UNCHANGED <<accepted, rejected, sourceAccepted,
                                  videoCount>>
              ELSE /\ mi' = mi + 1
                   /\ accepted' = IF r.result = "accepted"
                                  THEN Append(accepted, k) ELSE accepted
                   /\ rejected' = IF r.result = "rejected"
                                  THEN Append(rejected, k) ELSE rejected
                   /\ sourceAccepted' = IF r.result = "accepted"
                                        THEN sourceAccepted + 1
                                        ELSE sourceAccepted
                   /\ videoCount' = IF r.result = "accepted"
                                       /\ posts[k].type = "video"
                                    THEN videoCount + 1 ELSE videoCount
                   /\ UNCHANGED <<mpc, errors>>
    /\ UNCHANGED <<ci, posts, sourceLimit>>

\* The limit of accepted posts is reached: break.
limitBreak ==
    /\ mpc = "loop"
    /\ mi < Len(posts)
    /\ LimitReached
    /\ mpc' = "summary"
    /\ UNCHANGED <<ci, posts, sourceLimit, mi, sourceAccepted, videoCount,
                   accepted, rejected, errors, mlog>>

\* The loop has gone through every post.
loopEnd ==
    /\ mpc = "loop"
    /\ mi = Len(posts)
    /\ mpc' = "summary"
    /\ UNCHANGED <<ci, posts, sourceLimit, mi, sourceAccepted, videoCount,
                   accepted, rejected, errors, mlog>>

\* results.accepted.sort((a, b) => b.score - a.score): stable, highest
\* score first.
RECURSIVE InsertByScore(_, _)
InsertByScore(sorted, k) ==
    IF sorted = <<>> THEN <<k>>
    ELSE IF posts[Head(sorted)].score >= posts[k].score
    THEN <<Head(sorted)>> \o InsertByScore(Tail(sorted), k)
    ELSE <<k>> \o sorted

RECURSIVE SortByScore(_)
SortByScore(list) ==
    IF list = <<>> THEN <<>>
    ELSE InsertByScore(SortByScore(SubSeq(list, 1, Len(list) - 1)),
                       list[Len(list)])

\* The summary: nothing to upload, or the accepted posts are sorted and
\* the results are saved.
summary ==
    /\ mpc = "summary"
    /\ IF accepted = <<>>
       THEN mpc' = "nothing" /\ UNCHANGED accepted
       ELSE mpc' = "saved" /\ accepted' = SortByScore(accepted)
    /\ UNCHANGED <<ci, posts, sourceLimit, mi, sourceAccepted, videoCount,
                   rejected, errors, mlog>>

InitMain ==
    /\ mpc = "loop"
    /\ ci \in BOOLEAN
    /\ posts \in UNION { [1 .. n -> PostInputs] : n \in 0 .. MaxPosts }
    /\ sourceLimit \in {<<>>, <<1>>}
    /\ mi = 0
    /\ sourceAccepted = 0
    /\ videoCount = 0
    /\ accepted = <<>>
    /\ rejected = <<>>
    /\ errors = <<>>
    /\ mlog = <<>>
    /\ DubIdle
    /\ ImageIdle
    /\ OcrIdle
    /\ WrapIdle
    /\ TransIdle
    /\ FeedIdle

NextMain ==
    \/ (processPost /\ UNCHANGED notMainVars)
    \/ (limitBreak /\ UNCHANGED notMainVars)
    \/ (loopEnd /\ UNCHANGED notMainVars)
    \/ (summary /\ UNCHANGED notMainVars)

SpecMain == InitMain /\ [][NextMain]_vars

\* A run of main over video posts only, long enough for the video cap:
\* every post passes the filter and the translation, and dubVideo succeeds
\* or throws.
MaxVideoPosts == 8

VideoPostInputs ==
    { p \in PostInputs : p.type = "video" /\ p.fate \in {"ok", "dubThrows"} }

InitMainVideos ==
    /\ mpc = "loop"
    /\ ci \in BOOLEAN
    /\ posts \in UNION { [1 .. n -> VideoPostInputs] : n \in 0 .. MaxVideoPosts }
    /\ sourceLimit = <<>>
    /\ mi = 0
    /\ sourceAccepted = 0
    /\ videoCount = 0
    /\ accepted = <<>>
    /\ rejected = <<>>
    /\ errors = <<>>
    /\ mlog = <<>>
    /\ DubIdle
    /\ ImageIdle
    /\ OcrIdle
    /\ WrapIdle
    /\ TransIdle
    /\ FeedIdle

\* No limit of accepted posts is set, so the loop is never left by break.
NextMainVideos ==
    \/ (processPost /\ UNCHANGED notMainVars)
    \/ (loopEnd /\ UNCHANGED notMainVars)
    \/ (summary /\ UNCHANGED notMainVars)

SpecMainVideos == InitMainVideos /\ [][NextMainVideos]_vars

-----------------------------------------------------------------------------
(* TRANSLATE: one iteration of translateSegments, with translateSegment *)

\* Most words in an answer of the translation service in the model.
MaxAnswerWords == 11

\* A text: how many words it has, whether it starts or ends with a quote
\* character, and whether it has white space around it.
Text(n, lead, trail, pad) ==
    [words |-> n, lead |-> lead, trail |-> trail, pad |-> pad]

\* content.trim()
Trim(t) == [t EXCEPT !.pad = FALSE]

\* translation.replace(/^["']|["']$/g, ''): a quote character at the very
\* start and one at the very end are removed; white space in front of a
\* quote keeps it in place.
StripQuotes(t) ==
    IF t.pad THEN t ELSE [t EXCEPT !.lead = FALSE, !.trail = FALSE]

\* The words of a text as split at white space; a lone quote counts.
WordCount(t) ==
    IF t.words = 0 /\ (t.lead \/ t.trail) THEN 1 ELSE t.words

\* Math.round(duration * 2.5), the duration in ticks: n.5 rounds up.
maxWords(duration) == (duration + 1000) \div 2000

\* Texts the service may answer with.
ServiceAnswers ==
    { Text(n, lead, trail, pad) :
        n \in 0 .. MaxAnswerWords, lead \in BOOLEAN, trail \in BOOLEAN,
        pad \in BOOLEAN }

\* Segments handed to translateSegments: end - start and the source text.
TranslateInputs ==
    { [duration |-> d, text |-> Text(n, FALSE, FALSE, FALSE)] :
        d \in {0, Ms(200), Sec(3), Sec(4)}, n \in {0, 1, 3} }

\* translateSegment up to the answer: the request is sent and answered
\* with some text, or the call throws (also when the answer has no
\* content).
translateRequest ==
    /\ tpc = "call"
    /\ \E answered \in BOOLEAN, text \in ServiceAnswers :
         IF answered
         THEN tanswer' = <<text>> /\ tpc' = "answered"
         ELSE tanswer' = <<>> /\ tpc' = "caught"
    /\ UNCHANGED <<tsegment, tenglish>>

\* translateSegment returns the cleaned answer, and the record is pushed
\* with it as english.
translateReturn ==
    /\ tpc = "answered"
    /\ tenglish' = <<StripQuotes(Trim(tanswer[1]))>>
    /\ tpc' = "pushed"
    /\ UNCHANGED <<tsegment, tanswer>>

\* The catch block of translateSegments: the source text is pushed as
\* english.
translateFallback ==
    /\ tpc = "caught"
    /\ tenglish' = <<tsegment.text>>
    /\ tpc' = "pushed"
    /\ UNCHANGED <<tsegment, tanswer>>

InitTrans ==
    /\ tpc = "call"
    /\ tsegment \in TranslateInputs
    /\ tanswer = <<>>
    /\ tenglish = <<>>
    /\ DubIdle
    /\ ImageIdle
    /\ OcrIdle
    /\ WrapIdle
    /\ MainIdle
    /\ FeedIdle

NextTrans ==
    \/ (translateRequest /\ UNCHANGED notTransVars)
    \/ (translateReturn /\ UNCHANGED notTransVars)
    \/ (translateFallback /\ UNCHANGED notTransVars)

SpecTrans == InitTrans /\ [][NextTrans]_vars

-----------------------------------------------------------------------------
(* The Feed component: tabs, first-page loads, loadMore and the observer *)

POSTS_PER_PAGE == 20

\* Pages loadMore asks for in the model.
MaxPages == 2

\* The tabs of FilterTabs the model uses, and the categories of the posts.
Tabs == {"all", "food", "events"}
Categories == {"food", "events"}

\* Rows a query may return: none, a short page, a full page.
RowCounts == {0, 7, POSTS_PER_PAGE}

\* What a query for a tab may resolve to: an error, or rows whose
\* categories the filter of the tab allows (query.eq("category", tab)
\* unless the tab is "all").
QueryResults(tab) ==
    {[error |-> TRUE, rows |-> 0, cats |-> {}]}
    \cup {[error |-> FALSE, rows |-> 0, cats |-> {}]}
    \cup { [error |-> FALSE, rows |-> n, cats |-> cs] :
             n \in RowCounts \ {0},
             cs \in IF tab = "all" THEN (SUBSET Categories) \ {{}}
                    ELSE {{tab}} }

\* The values the loadMore of the current render closes over, with the
\* initialLoading of the observer's callback.
CurrentClosure ==
    [activeTab |-> activeTab, offset |-> offset, hasMore |-> hasMore,
     initialLoading |-> initialLoading]

\* {!initialLoading && hasMore && <div ref={sentinelRef}>}
SentinelRendered(loading, more) == ~loading /\ more

\* handleTabChange: setActiveTab(tab).  React runs the effects of the
\* previous render before it handles the click; those of the new render
\* have not run yet.
handleTabChange ==
    /\ activeTab \in Tabs
    /\ effectTab = activeTab
    /\ observerClosure = <<CurrentClosure>>
    /\ \E tab \in Tabs \ {activeTab} : activeTab' = tab
    /\ UNCHANGED <<feedPosts, offset, hasMore, initialLoading, loadingMoreRef,
                   effectTab, observerClosure, observing, firstPageFetches,
                   loadMoreFetches, lastFire>>

\* The effects of the last render run.  If activeTab changed: the cleanup
\* of the previous first-page effect sets its cancelled, the state is reset
\* and loadFirstPage sends its query.  The observer effect disconnects the
\* old observer and makes one for the loadMore of that render; the sentinel
\* it observes is gone again once the reset is rendered.
runEffects ==
    /\ activeTab \in Tabs
    /\ effectTab # activeTab \/ observerClosure # <<CurrentClosure>>
    /\ observerClosure' = <<CurrentClosure>>
    /\ IF effectTab # activeTab
       THEN /\ effectTab' = activeTab
            /\ initialLoading' = TRUE
            /\ feedPosts' = {}
            /\ offset' = 0
            /\ hasMore' = TRUE
            /\ firstPageFetches' =
                  { [f EXCEPT !.cancelled = TRUE] : f \in firstPageFetches }
                  \cup {[tab |-> activeTab, cancelled |-> FALSE]}
            /\ observing' = FALSE
       ELSE /\ observing' = SentinelRendered(initialLoading, hasMore)
            /\ UNCHANGED <<effectTab, initialLoading, feedPosts, offset,
                           hasMore, firstPageFetches>>
    /\ UNCHANGED <<activeTab, loadingMoreRef, loadMoreFetches, lastFire>>

\* A first-page query resolves: discarded if cancelled; else the page
\* replaces the list, or the error is logged; finally initialLoading ends.
firstPageDone ==
    /\ \E f \in firstPageFetches : \E r \in QueryResults(f.tab) :
         /\ firstPageFetches' = firstPageFetches \ {f}
         /\ IF f.cancelled
            THEN UNCHANGED <<feedPosts, offset, hasMore, initialLoading,
                             observing>>
            ELSE /\ initialLoading' = FALSE
                 /\ IF r.error
                    THEN UNCHANGED <<feedPosts, offset, hasMore>>
                    ELSE /\ feedPosts' = r.cats
                         /\ offset' = r.rows
                         /\ hasMore' = (r.rows = POSTS_PER_PAGE)
                 /\ observing' =
                       (observing /\ SentinelRendered(FALSE, hasMore'))
    /\ UNCHANGED <<activeTab, loadingMoreRef, effectTab, observerClosure,
                   loadMoreFetches, lastFire>>

\* A loadMore without the guard on loadingMoreRef.
loadMoreUnguarded(c) ==
    IF ~c.hasMore
    THEN /\ lastFire' = "returned"
         /\ UNCHANGED <<loadingMoreRef, loadMoreFetches>>
    ELSE /\ lastFire' = "issued"
         /\ loadingMoreRef' = TRUE
         /\ loadMoreFetches' =
               Append(loadMoreFetches, [tab |-> c.activeTab, offset |-> c.offset])

\* loadMore up to its await, as the closure c sees the state: the guard,
\* then the ref is set and the query for the next page is sent.
loadMore(c) ==
    IF loadingMoreRef \/ ~c.hasMore
    THEN /\ lastFire' = "returned"
         /\ UNCHANGED <<loadingMoreRef, loadMoreFetches>>
    ELSE /\ lastFire' = "issued"
         /\ loadingMoreRef' = TRUE
         /\ loadMoreFetches' =
               Append(loadMoreFetches, [tab |-> c.activeTab, offset |-> c.offset])

\* The IntersectionObserver reports the sentinel in view: the callback
\* calls loadMore unless the first page is loading.
observerFires ==
    /\ observing
    /\ observerClosure # <<>>
    /\ offset < MaxPages * POSTS_PER_PAGE
    /\ LET c == observerClosure[1]
       IN  IF c.initialLoading
           THEN /\ lastFire' = "ignored"
                /\ UNCHANGED <<loadingMoreRef, loadMoreFetches>>
           ELSE loadMore(c)
    /\ UNCHANGED <<activeTab, feedPosts, offset, hasMore, initialLoading,
                   effectTab, observerClosure, observing, firstPageFetches>>

\* The query of a loadMore resolves: the page is appended by functional
\* updates, or the error is logged; finally the ref is cleared.
loadMoreDone ==
    /\ loadMoreFetches # <<>>
    /\ \E r \in QueryResults(Head(loadMoreFetches).tab) :
         IF r.error
         THEN UNCHANGED <<feedPosts, offset, hasMore, observing>>
         ELSE /\ feedPosts' = feedPosts \cup r.cats
              /\ offset' = offset + r.rows
              /\ hasMore' = (r.rows = POSTS_PER_PAGE)
              /\ observing' =
                    (observing /\ SentinelRendered(initialLoading, hasMore'))
    /\ loadMoreFetches' = Tail(loadMoreFetches)
    /\ loadingMoreRef' = FALSE
    /\ lastFire' = "none"
    /\ UNCHANGED <<activeTab, initialLoading, effectTab, observerClosure,
                   firstPageFetches>>

\* The first render of Feed, before any effect has run.
InitFeed ==
    /\ activeTab = "all"
    /\ feedPosts = {}
    /\ offset = 0
    /\ hasMore = TRUE
    /\ initialLoading = TRUE
    /\ loadingMoreRef = FALSE
    /\ effectTab = "none"
    /\ observerClosure = <<>>
    /\ observing = FALSE
    /\ firstPageFetches = {}
    /\ loadMoreFetches = <<>>
    /\ lastFire = "none"
    /\ DubIdle
    /\ ImageIdle
    /\ OcrIdle
    /\ WrapIdle
    /\ MainIdle
    /\ TransIdle

NextFeed ==
    \/ (handleTabChange /\ UNCHANGED notFeedVars)
    \/ (runEffects /\ UNCHANGED notFeedVars)
    \/ (firstPageDone /\ UNCHANGED notFeedVars)
    \/ (observerFires /\ UNCHANGED notFeedVars)
    \/ (loadMoreDone /\ UNCHANGED notFeedVars)

SpecFeed == InitFeed /\ [][NextFeed]_vars

-----------------------------------------------------------------------------
(* Claims about the per-image flow (SpecImage) *)

CallsOf(fn) == SelectSeq(icalls, LAMBDA c : c.fn = fn)
EditCalls == CallsOf("editImageWithQwen")
ValidateCalls == CallsOf("validateImageTranslation")
OverlayCalls == CallsOf("overlayTranslatedText")

\* The translation step of the image is over.
FlowEnded == ipc \in {"upload", "uploaded", "skipped", "threw"}

\* The first edit produced a file that failed validation, and so did the
\* retry edit.
BothValidationsFailed ==
    /\ Len(EditCalls) = 2
    /\ EditCalls[1].ret = EditedImage /\ EditCalls[1].wrote
    /\ EditCalls[2].ret = RetryImage /\ EditCalls[2].wrote
    /\ Len(ValidateCalls) = 2
    /\ ~ValidateCalls[1].success
    /\ ~ValidateCalls[2].success

\* C1 as stated: after two failed validations the image finally used is the
\* compositor's output file, never the original image or an edited / retry
\* file, and no exception escapes the flow.
C1_AlwaysCompositorOutput ==
    (BothValidationsFailed /\ FlowEnded) =>
        /\ finalImagePath = OverlayImage
        /\ ierr = <<>>

\* C1 amended: after two failed validations the image finally used is what
\* overlayTranslatedText, called once on the original image, returned: its
\* output file when it wrote one, the original image path when the
\* compositor itself failed; never an edited / retry file, and no exception
\* escapes the flow.
C1_CompositorResultIsFinal ==
    (BothValidationsFailed /\ FlowEnded) =>
        /\ ierr = <<>>
        /\ Len(OverlayCalls) = 1
        /\ OverlayCalls[1].imagePath = LocalImage
        /\ finalImagePath = OverlayCalls[1].ret
        /\ finalImagePath = (IF OverlayCalls[1].wrote THEN OverlayImage
                             ELSE LocalImage)
        /\ finalImagePath \notin {EditedImage, RetryImage}

C1_Witness ==
    /\ BothValidationsFailed
    /\ FlowEnded
    /\ finalImagePath = OverlayImage
    /\ OverlayImage \in ifiles

\* C2: whatever the edit request, the download, the validator and the
\* compositor do, editImageWithQwen and overlayTranslatedText never throw,
\* and each returns its own output path, having written the file, or the
\* original image path, which no callee writes.
C2_NeverThrowsToCaller ==
    \A k \in DOMAIN icalls :
        icalls[k].fn \in {"editImageWithQwen", "overlayTranslatedText"} =>
            /\ ~icalls[k].threw
            /\ ierr = <<>>
            /\ icalls[k].outputPath # LocalImage
            /\ \/ /\ icalls[k].ret = icalls[k].outputPath
                   /\ icalls[k].wrote
                   /\ icalls[k].outputPath \in ifiles
               \/ /\ icalls[k].ret = LocalImage
                   /\ ~icalls[k].wrote

\* The first edit wrote its file, validation failed, the retry edit failed
\* and so did the compositor.
C2_Witness ==
    /\ Len(EditCalls) = 2
    /\ EditCalls[1].ret = EditedImage
    /\ EditCalls[2].ret = LocalImage
    /\ Len(ValidateCalls) = 1
    /\ Len(OverlayCalls) = 1
    /\ OverlayCalls[1].ret = LocalImage
    /\ finalImagePath = LocalImage
    /\ ipc = "uploaded"

-----------------------------------------------------------------------------
(* Claims about the dubbing pipeline (Spec) *)

\* The list syncAudioTiming has produced so far, or returned.
SyncedList ==
    IF pc = "sync" THEN results
    ELSE IF pc \in {"assemble", "concat", "remux", "done"} THEN segments
    ELSE <<>>

\* The synced segments that had an audio file.
Voiced == { k \in DOMAIN SyncedList : SyncedList[k].audioPath # <<>> }
SlotOf(k) == The(SyncedList[k].duration)
AudioOf(k) == The(SyncedList[k].audioDuration)

\* speedAdjustment of segment k equals num / den.
SpeedIs(k, num, den) ==
    LET f == SyncedList[k].speedAdjustment
    IN  f[2] # 0 /\ f[1] * den = num * f[2]

\* assembleAudioTrack has built its whole concat list.
TrackBuilt == pc \in {"concat", "remux", "done"}

\* C3 as stated: whatever the segments and the synthesized durations, the
\* clips assembleAudioTrack concatenates (its silences and the adjusted
\* clips of syncAudioTiming) add up to videoDuration.
C3_TrackMatchesVideo ==
    TrackBuilt => TotalLen(concatList) = videoDuration

\* C4: for a segment with an audio file and r = audioDuration / duration,
\* the speed factor is 1.0 with the clip left alone (adjustedAudioPath =
\* audioPath, adjusted false) when 0.95 <= r <= 1.05, exactly r when
\* 1.05 < r <= 1.5, and exactly 1.5 when r > 1.5.
C4_SpeedFactor ==
    \A k \in Voiced :
        LET a == AudioOf(k)
            d == SlotOf(k)
            s == SyncedList[k]
        IN  /\ (d > 0 /\ 95 * d <= 100 * a /\ 100 * a <= 105 * d) =>
                  /\ SpeedIs(k, 1, 1)
                  /\ s.adjustedAudioPath = s.audioPath
                  /\ s.adjusted = {FALSE}
            /\ (d > 0 /\ 105 * d < 100 * a /\ 100 * a <= 150 * d) =>
                  /\ SpeedIs(k, a, d)
                  /\ s.adjusted = {TRUE}
            /\ ((d > 0 /\ 100 * a > 150 * d) \/ (d = 0 /\ a > 0)) =>
                  /\ SpeedIs(k, 3, 2)
                  /\ s.adjusted = {TRUE}

\* Both closed bounds in one run: r = 1.05 (4.0 s slot, 4.2 s of audio) is
\* left alone, r = 1.5 (3.0 s slot, 4.5 s of audio) is sped up by exactly r.
C4_Witness ==
    /\ pc = "assemble"
    /\ \E k \in Voiced : /\ SlotOf(k) = Sec(4) /\ AudioOf(k) = Ms(4200)
                         /\ SpeedIs(k, 1, 1)
                         /\ SyncedList[k].adjusted = {FALSE}
    /\ \E k \in Voiced : /\ SlotOf(k) = Sec(3) /\ AudioOf(k) = Ms(4500)
                         /\ SpeedIs(k, AudioOf(k), SlotOf(k))
                         /\ SyncedList[k].adjusted = {TRUE}

\* C5: a segment carries a warning if and only if r > 1.5.  A 3.0 s slot
\* with 4.5 s of audio (r = 1.5) gets speed factor 1.5 and no warning; a
\* 3.0 s slot with 5.0 s of audio gets a warning that quotes "1.67".
C5_WarningOnlyAboveCap ==
    \A k \in Voiced :
        LET a == AudioOf(k)
            d == SlotOf(k)
            s == SyncedList[k]
        IN  /\ (s.warning # {}) <=>
                  ((d > 0 /\ 100 * a > 150 * d) \/ (d = 0 /\ a > 0))
            /\ (d = Sec(3) /\ a = Ms(4500)) =>
                  (SpeedIs(k, 3, 2) /\ s.warning = {})
            /\ (d = Sec(3) /\ a = Sec(5)) =>
                  (SpeedIs(k, 3, 2) /\ s.warning = {167})

\* Both scenarios in one run: a 3.0 s slot with 4.5 s of audio and a 3.0 s
\* slot with 5.0 s of audio.
C5_Witness ==
    /\ pc = "assemble"
    /\ \E k \in Voiced : /\ SlotOf(k) = Sec(3) /\ AudioOf(k) = Ms(4500)
                         /\ SyncedList[k].warning = {}
    /\ \E k \in Voiced : /\ SlotOf(k) = Sec(3) /\ AudioOf(k) = Sec(5)
                         /\ SyncedList[k].warning = {167}

\* C6 as stated: silencePadding is set if and only if r < 0.95, and then it
\* equals duration - audioDuration and is strictly positive, the speed
\* factor stays 1.0, and the padded clip is as long as the segment's slot.
C6_PaddingFillsSlot ==
    \A k \in Voiced :
        LET a == AudioOf(k)
            d == SlotOf(k)
            s == SyncedList[k]
        IN  /\ (s.silencePadding # {}) <=> (d > 0 /\ 100 * a < 95 * d)
            /\ (s.silencePadding # {}) =>
                  /\ s.silencePadding = {d - a}
                  /\ d - a > 0
                  /\ SpeedIs(k, 1, 1)
                  /\ s.clipLen = {d}

\* The voiced clips of the concat list: positions whose file is a segment's
\* clip, adjusted or not.
ClipPositions ==
    { k \in DOMAIN concatList : concatList[k].path[1] \in {"segment", "adjusted"} }

\* Offset at which entry k of the concat list begins in the track.
OffsetOf(k) == TotalLen(SubSeq(concatList, 1, k - 1))

\* C7 as stated: in the assembled track every voiced clip begins at its
\* segment's original start time.
C7_ClipsStartOnTime ==
    TrackBuilt =>
        \A k \in ClipPositions :
            OffsetOf(k) = segments[concatList[k].path[2] + 1].start

LaterStages ==
    {"translateSegments", "generateAllSegments", "syncAudioTiming",
     "assembleAudioTrack", "replaceAudioTrack"}

NoSpeechRaised == pc = "threw" /\ err = <<"No speech segments found in video", "">>

\* C8: when transcription returns zero segments dubVideo raises an error,
\* none of translateSegments, generateAllSegments, syncAudioTiming,
\* assembleAudioTrack, replaceAudioTrack is invoked, and no dubbed video file
\* is produced; dubVideo takes no step after the error.
C8_NoSegmentsIsTerminal ==
    [][ /\ (pc = "transcribed" /\ Len(segments) = 0) =>
             (NoSpeechRaised' /\ invoked' = invoked /\ files' = files)
        /\ NoSpeechRaised' =>
             /\ invoked' \cap LaterStages = {}
             /\ File("dubbed-audio.mp3") \notin files'
             /\ File("dubbed-video.mp4") \notin files'
        /\ ~NoSpeechRaised ]_vars

C8_Witness ==
    /\ NoSpeechRaised
    /\ segments = <<>>
    /\ "transcribeAudio" \in invoked

WhisperCalls == SelectSeq(whisperLog, LAMBDA e : e.ev = "call")

\* C9: a call that fails with status 400, on whichever attempt, is the last
\* thing transcribeAudio does before it throws: no API call and no backoff
\* wait follows it.
C9_ValidationErrorFailsFast ==
    \A k \in DOMAIN whisperLog :
        (whisperLog[k].ev = "call" /\ whisperLog[k].status = 400) =>
            /\ k = Len(whisperLog)
            /\ pc = "threw"
            /\ err = <<"Whisper API rejected the audio", whisperLog[k].msg>>

\* The 400 came on the third attempt, after two backoff waits.
C9_Witness ==
    /\ Len(WhisperCalls) = 3
    /\ WhisperCalls[3].status = 400
    /\ WhisperCalls[1].status # 400
    /\ pc = "threw"

\* C10: transcribeAudio makes at most 3 calls and ends: it returns on the
\* first successful call, retries only after a failure other than 400, and
\* after 3 such failures throws an error carrying the last failure's message.
C10_BoundedRetries ==
    LET n == Len(WhisperCalls)
    IN  /\ n <= 3
        /\ \A k \in 1 .. n - 1 : WhisperCalls[k].status \notin {200, 400}
        /\ (n > 0 /\ WhisperCalls[n].status = 200) => pc = "transcribed"
        /\ pc = "whisper" =>
              /\ attempt = n + 1
              /\ \A k \in 1 .. n : WhisperCalls[k].status \notin {200, 400}
              /\ (n < 3 => ENABLED transcribeAttempt)
              /\ (n = 3 => ENABLED transcribeExhausted /\ ~ENABLED transcribeAttempt)
        /\ (n = 3 /\ WhisperCalls[3].status \notin {200, 400}
               /\ pc \notin {"whisper"}) =>
              /\ pc = "threw"
              /\ err = <<"Whisper transcription failed after 3 attempts",
                         WhisperCalls[3].msg>>
        /\ \A k \in 1 .. Len(whisperLog) - 1 :
              whisperLog[k].ev = "sleep" =>
                 /\ whisperLog[k + 1].ev = "call"
                 /\ k > 1 /\ whisperLog[k - 1].ev = "call"

\* Three failures of different kinds, and the error carries the last one.
C10_Witness ==
    /\ pc = "threw"
    /\ Len(WhisperCalls) = 3
    /\ WhisperCalls[1].msg # WhisperCalls[3].msg
    /\ WhisperCalls[3].status # 400
    /\ err[2] = WhisperCalls[3].msg

\* The fields a later stage leaves as the earlier stage wrote them.
SameTimeline(out, in) == out.start = in.start /\ out.end = in.end

\* C11: a TTS failure for a segment never aborts generateAllSegments: the
\* output holds one record per input segment, in input order; the record of
\* a failed segment has audioPath null and the error message attached; and
\* the segments after it are still synthesized.
C11_TtsFailureIsRecorded ==
    /\ pc = "tts" =>
          /\ Len(results) <= Len(segments)
          /\ \A k \in DOMAIN results :
                /\ SameTimeline(results[k], segments[k])
                /\ results[k].english = segments[k].english
                /\ results[k].chinese = segments[k].chinese
                /\ (results[k].error # "") <=> (results[k].audioPath = <<>>)
                /\ results[k].audioPath \in {<<>>, SegmentPath(k - 1)}
                /\ results[k].audioPath # <<>> => results[k].audioPath \in files
          /\ Len(results) < Len(segments) => ENABLED generateSegment
          /\ Len(results) = Len(segments) => ENABLED syncAudioTimingStart
    /\ (pc = "threw" /\ "generateAllSegments" \in invoked
          /\ "syncAudioTiming" \notin invoked) =>
          err = <<"ELEVENLABS_API_KEY not found in .env file", "">>

\* The first segment failed and the second one was synthesized after it.
C11_Witness ==
    /\ pc = "tts"
    /\ Len(results) = 2
    /\ results[1].error # "" /\ results[1].audioPath = <<>>
    /\ results[2].error = "" /\ results[2].audioPath = SegmentPath(1)

\* C12: translateSegments returns one record per input segment, in input
\* order; the record of a segment whose translation call failed carries the
\* untranslated source text as its translation; the remaining segments are
\* still translated; and no per-segment failure makes translateSegments throw.
C12_TranslationFallsBack ==
    /\ pc = "translating" =>
          /\ Len(results) <= Len(segments)
          /\ \A k \in DOMAIN results :
                /\ SameTimeline(results[k], segments[k])
                /\ results[k].chinese = segments[k].text
                /\ results[k].duration = {segments[k].end - segments[k].start}
                /\ \/ results[k].english = "en"
                   \/ results[k].english = segments[k].text
          /\ Len(results) < Len(segments) => ENABLED translateSegment
          /\ Len(results) = Len(segments) => ENABLED generateAllSegmentsStart
    /\ (pc = "threw" /\ "translateSegments" \in invoked
          /\ "generateAllSegments" \notin invoked) =>
          err = <<"OPENAI_API_KEY not found in .env file", "">>

\* The first translation failed and the second one succeeded after it.
C12_Witness ==
    /\ pc = "translating"
    /\ Len(results) = 2
    /\ results[1].english = segments[1].text
    /\ results[2].english = "en"

\* The source text of a record: text as transcribed, chinese once translated.
SourceText(seg) == IF seg.chinese # "" THEN seg.chinese ELSE seg.text

\* The record out carries everything the record in carried: the timeline,
\* the source text, and every field a stage had already set.
FieldsKept(out, in) ==
    /\ SameTimeline(out, in)
    /\ SourceText(out) = SourceText(in)
    /\ in.duration # {} => out.duration = in.duration
    /\ in.english # "" => out.english = in.english
    /\ in.audioPath # <<>> => out.audioPath = in.audioPath
    /\ in.audioDuration # {} => out.audioDuration = in.audioDuration
    /\ in.error # "" => out.error = in.error

ListKept(out, in) ==
    /\ Len(out) <= Len(in)
    /\ \A k \in DOMAIN out :
          /\ FieldsKept(out[k], in[k])
          /\ out[k].duration = {in[k].end - in[k].start}

WhisperErrors ==
    {"Whisper API rejected the audio",
     "Whisper transcription failed after 3 attempts"}

\* dubVideo returned, or threw because an external service failed.
EndedOnServices == pc = "done" \/ (pc = "threw" /\ err[1] \in WhisperErrors)

\* C14 as stated: dubVideo ends with an output video file even when the
\* calls to the speech-to-text, translation and text-to-speech services
\* fail; a failure of the services never leaves the item without a file.
C14_AlwaysAnOutputFile ==
    EndedOnServices => File("dubbed-video.mp4") \in files

\* Call k of the flow is an edit that produced no new file.
EditProducedNothing(k) ==
    /\ icalls[k].fn = "editImageWithQwen"
    /\ ~ProducedNewFile(icalls[k].ret, ifiles)

\* C15: whenever the edit service produces no new file, on the first attempt
\* or on the retry, the flow falls back to overlayTranslatedText; in every
\* fallback the compositor is given the original image, never an edited or
\* retry file, and the compositor is invoked at most once per image.
C15_FallbackUsesOriginal ==
    /\ Len(OverlayCalls) <= 1
    /\ \A k \in DOMAIN OverlayCalls :
          /\ OverlayCalls[k].imagePath = LocalImage
          /\ OverlayCalls[k].imagePath \notin {EditedImage, RetryImage}
    /\ \A k \in DOMAIN icalls :
          EditProducedNothing(k) =>
             IF k = Len(icalls)
             THEN ipc = "fallback" /\ ENABLED compositorFallback
             ELSE /\ k + 1 = Len(icalls)
                  /\ icalls[k + 1].fn = "overlayTranslatedText"
                  /\ icalls[k + 1].outputPath = OverlayImage

\* The first edit was rejected by the validator, the retry produced no file,
\* and the compositor then ran on the original image.
C15_Witness ==
    /\ Len(EditCalls) = 2
    /\ EditCalls[1].wrote
    /\ ~EditCalls[2].wrote
    /\ Len(OverlayCalls) = 1
    /\ OverlayCalls[1].imagePath = LocalImage
    /\ OverlayCalls[1].wrote
    /\ finalImagePath = OverlayImage

\* The validator answered with a verdict that could be parsed.
HasVerdict == validation # <<>> /\ validation[2].kind = "verdict"

\* C16 as stated: validateImageTranslation reports success only if the
\* verdict says that all expected translations are present, that no
\* source-language overlay text is still visible, and that the quality score
\* is at least 80; a verdict that violates any of the three is a failure.
C16_SuccessNeedsAllThree ==
    HasVerdict =>
        (validation[1] =>
            /\ validation[2].all_translated
            /\ ~validation[2].untranslated_chinese
            /\ validation[2].quality_score >= 80)

-----------------------------------------------------------------------------
(* Claims about the image functions called on their own (SpecDirect) *)

\* The call a step has just made.
LastCall == icalls[Len(icalls)]

\* C17: called with an empty or missing overlay list, overlayTranslatedText
\* and editImageWithQwen both return the original image path unchanged,
\* write no file at the output path and make no external service call.
C17_EmptyOverlaysAreNoOp ==
    [][ (overlayCount = 0 /\ Len(icalls') > Len(icalls)) =>
           /\ LastCall'.fn \in {"editImageWithQwen", "overlayTranslatedText"}
           /\ ~LastCall'.threw
           /\ LastCall'.ret = LastCall'.imagePath
           /\ LastCall'.ret = LocalImage
           /\ ~LastCall'.wrote
           /\ ifiles' = ifiles
           /\ LastCall'.requests = 0 ]_vars

\* Both functions were called with no overlays, the editor with its key set,
\* and the output paths are still free.
C17_Witness ==
    /\ ipc = "direct"
    /\ overlayCount = 0
    /\ qwenKey
    /\ Len(icalls) = 2
    /\ icalls[1].fn = "overlayTranslatedText"
    /\ icalls[2].fn = "editImageWithQwen"
    /\ icalls[1].ret = LocalImage /\ icalls[2].ret = LocalImage
    /\ ifiles = {LocalImage}

-----------------------------------------------------------------------------
(* Claims about the OCR classifier (SpecOcr) *)

\* The three parses of one classifier answer.
StrictParse(text) == JsonParse(text)
CleanupParse(text) == JsonParse(Cleanup(text))
RepairParse(text) == JsonParse(Repair(Cleanup(text)))

\* A step in which callHaikuForOverlays parses the answer it waited for.
ParsesAnswer == pending # <<>> /\ pending' = <<>>

\* C18: callHaikuForOverlays tries the strict parse, then the cleanup parse,
\* then the truncation-repair parse, in that order and each only if the one
\* before it failed; it returns the result of the first attempt that
\* succeeds, and returns null if and only if all three attempts fail.
C18_ParseCascade ==
    [][ParsesAnswer =>
         LET text == pending[1]
             h == hcall'[1]
         IN  /\ h.attempts \in {<<"strict">>,
                                <<"strict", "cleanup">>,
                                <<"strict", "cleanup", "repair">>}
             /\ Len(h.attempts) >= 2 <=> StrictParse(text) = <<>>
             /\ Len(h.attempts) = 3 <=>
                    StrictParse(text) = <<>> /\ CleanupParse(text) = <<>>
             /\ h.result =
                    (IF StrictParse(text) # <<>> THEN StrictParse(text)
                     ELSE IF CleanupParse(text) # <<>> THEN CleanupParse(text)
                     ELSE RepairParse(text))
             /\ h.result = <<>> <=>
                    /\ StrictParse(text) = <<>>
                    /\ CleanupParse(text) = <<>>
                    /\ RepairParse(text) = <<>>
       ]_vars

\* A truncated answer was recovered by the third attempt, with an overlay
\* in it.
C18_Witness ==
    /\ hcall # <<>>
    /\ hcall[1].attempts = <<"strict", "cleanup", "repair">>
    /\ hcall[1].result # <<>>
    /\ hcall[1].result[1] > 0

\* The places of analyzeImageWithGoogle from which only a thrown error ends
\* the function at once.
EndsOnlyByThrow ==
    \/ opc \in {"read", "single"}
    \/ opc = "batch" /\ batchStart < blocks

\* C19: analyzeImageWithGoogle never raises: when the OCR call, the metadata
\* read, the image read, a classifier call (single or batched) or the
\* handling of the answer throws, it returns an empty overlay list; every
\* way out of the function returns a list.
C19_NeverRaises ==
    [][/\ opc' # "raised"
       /\ (opc # "returned" /\ opc' = "returned") => oret' # <<>>
       /\ (opc \in {"vision", "metadata"} /\ opc' = "returned")
             => oret' = <<0>>
       /\ (EndsOnlyByThrow /\ opc' = "returned") => oret' = <<0>>
      ]_vars

\* A batched classifier call threw after an earlier batch had given
\* overlays: the function returned the empty list.
C19_Witness ==
    /\ opc = "returned"
    /\ oret = <<0>>
    /\ allOverlays > 0
    /\ batchStart < blocks

-----------------------------------------------------------------------------
(* Claims about the compositor's word-wrap (SpecWrap) *)

\* C20: for every overlay text and box, each line produced by the word-wrap
\* at the final font size is no wider than boxWidth - 2*padding, unless the
\* final font size equals the minimum (10).
C20_LinesFitTheBox ==
    wpc = "drawn" =>
        \/ fontSize = MIN_FONT
        \/ \A k \in DOMAIN lines : ~TooWide(lines[k], fontSize)

-----------------------------------------------------------------------------
(* Claims about the order of the stages of dubVideo (Spec) *)

Stages ==
    <<"EXTRACT_AUDIO", "SEPARATE_BACKGROUND", "TRANSCRIBE", "TRANSLATE",
      "SYNTHESIZE", "SYNC_TIMING", "ASSEMBLE_TRACK", "REMUX">>

Rank(stage) == CHOOSE k \in DOMAIN Stages : Stages[k] = stage

\* The stage a function called by dubVideo belongs to.
StageOfCall(f) ==
    CASE f = "extractAudio" -> "EXTRACT_AUDIO"
      [] f \in {"extractHighQualityAudio", "separateAudio"}
            -> "SEPARATE_BACKGROUND"
      [] f = "transcribeAudio" -> "TRANSCRIBE"
      [] f = "translateSegments" -> "TRANSLATE"
      [] f = "generateAllSegments" -> "SYNTHESIZE"
      [] f = "syncAudioTiming" -> "SYNC_TIMING"
      [] f = "assembleAudioTrack" -> "ASSEMBLE_TRACK"
      [] f = "replaceAudioTrack" -> "REMUX"

Started == { StageOfCall(f) : f \in invoked }

\* The stages dubVideo is waiting for.
ActiveStages ==
    CASE pc = "extract" -> {"EXTRACT_AUDIO"}
      [] pc \in {"hq", "separate"} -> {"SEPARATE_BACKGROUND"}
      [] pc \in {"transcribe", "whisper"} -> {"TRANSCRIBE"}
      [] pc \in {"translate", "translating"} -> {"TRANSLATE"}
      [] pc = "tts" -> {"SYNTHESIZE"}
      [] pc = "sync" -> {"SYNC_TIMING"}
      [] pc \in {"assemble", "concat"} -> {"ASSEMBLE_TRACK"}
      [] pc = "remux" -> {"REMUX"}
      [] OTHER -> {}

\* The stages that have started when the stage starts: all before it, the
\* optional separation only if it ran.
StartedBefore(stage) ==
    { t \in Started \cup ({ Stages[k] : k \in DOMAIN Stages }
                            \ {"SEPARATE_BACKGROUND"}) :
        Rank(t) < Rank(stage) }

\* In the step that starts the stage, the stage before it has returned what
\* it is there for.
PrecedingCompleted(stage) ==
    CASE stage = "EXTRACT_AUDIO" -> pc = "start"
      [] stage = "SEPARATE_BACKGROUND" ->
            pc = "probe" /\ File("audio-whisper.mp3") \in files
      [] stage = "TRANSCRIBE" ->
            IF "SEPARATE_BACKGROUND" \in Started
            THEN /\ pc = "separate"
                 /\ accompanimentPath' # <<>>
                 /\ accompanimentPath' \in files'
            ELSE pc = "probe" /\ File("audio-whisper.mp3") \in files
      [] stage = "TRANSLATE" -> pc = "transcribed" /\ Len(segments) > 0
      [] stage = "SYNTHESIZE" ->
            pc = "translating" /\ Len(results) = Len(segments)
      [] stage = "SYNC_TIMING" ->
            pc = "tts" /\ Len(results) = Len(segments)
      [] stage = "ASSEMBLE_TRACK" ->
            pc = "sync" /\ Len(results) = Len(segments)
      [] stage = "REMUX" ->
            pc = "concat" /\ File("dubbed-audio.mp3") \in files'

\* C21: in any run of dubVideo the stages start in the order EXTRACT_AUDIO,
\* optional SEPARATE_BACKGROUND, TRANSCRIBE, TRANSLATE, SYNTHESIZE,
\* SYNC_TIMING, ASSEMBLE_TRACK, REMUX; a stage starts only after the one
\* before it has completed successfully, at most one stage is active, and
\* it is the last one started; after a failure nothing more starts.
C21_StagesInOrder ==
    [][/\ pc \notin {"threw", "done"}
       /\ invoked' # invoked =>
             /\ Started \subseteq Started'
             /\ \A stage \in Started' \ Started :
                   /\ Started' = Started \cup {stage}
                   /\ Started = StartedBefore(stage)
                   /\ PrecedingCompleted(stage)
       /\ LET active == ActiveStages'
              started == Started'
          IN  /\ Cardinality(active) <= 1
              /\ \A a \in active :
                    a \in started /\ \A t \in started : Rank(t) <= Rank(a)
      ]_vars

\* A run with background separation went through all eight stages.
C21_Witness ==
    /\ pc = "done"
    /\ Started = { Stages[k] : k \in DOMAIN Stages }
    /\ File("dubbed-video.mp4") \in files

-----------------------------------------------------------------------------
(* Claims about the loop of main (SpecMain) *)

\* How often the post is in a list of results.
TimesIn(list, k) == Cardinality({ j \in DOMAIN list : list[j] = k })

LoopLeft == mpc \in {"summary", "nothing", "saved"}

\* C22: when processing one post raises (dubVideo throws, the video post has
\* no video_url, ...), main records exactly one entry for that post in
\* results.errors and none in accepted or rejected, and goes on with the
\* next post: every other post still ends in exactly one of accepted and
\* rejected, and the loop is left only at the end of the posts or at the
\* limit of accepted posts.
C22_FailedPostIsRecordedOnce ==
    /\ mpc # "failed"
    /\ Len(mlog) = mi
    /\ \A j \in DOMAIN mlog :
          /\ mlog[j].post = j
          /\ mlog[j].threw =>
                /\ TimesIn(errors, j) = 1
                /\ TimesIn(accepted, j) = 0
                /\ TimesIn(rejected, j) = 0
          /\ ~mlog[j].threw =>
                /\ TimesIn(errors, j) = 0
                /\ TimesIn(accepted, j) + TimesIn(rejected, j) = 1
    /\ LoopLeft => (mi = Len(posts) \/ LimitReached)

\* dubVideo threw for one post, a video post after it had no video_url, and
\* the post after that was accepted.
C22_Witness ==
    /\ mpc = "saved"
    /\ Len(mlog) = 3
    /\ mlog[1].threw /\ mlog[1].reached = "dubVideo"
    /\ mlog[2].threw /\ mlog[2].reached = "videoUrl"
    /\ errors = <<1, 2>>
    /\ accepted = <<3>>

-----------------------------------------------------------------------------
(* Claims about the credentials of the dubbing pipeline (Spec) *)

MissingCredential == ~env.openai \/ ~env.eleven

\* The stage functions that work on the media before any key is looked at.
MediaStagesRun ==
    invoked \cap {"extractAudio", "extractHighQualityAudio", "separateAudio",
                  "transcribeAudio", "translateSegments"}

\* C23: when a required credential (OPENAI_API_KEY or ELEVENLABS_API_KEY) is
\* missing, the run fails at startup: no media stage (audio extraction,
\* transcription, translation) is executed before the failure is raised.
C23_MissingKeyFailsAtStartup ==
    MissingCredential => MediaStagesRun = {}

-----------------------------------------------------------------------------
(* Claims about the retry of the edit (SpecImage) *)

IsEdit(k) == icalls[k].fn = "editImageWithQwen"
IsValidation(k) == icalls[k].fn = "validateImageTranslation"

\* How many of the calls before call k went to the function.
CallsBefore(fn, k) ==
    Cardinality({ j \in 1 .. k - 1 : icalls[j].fn = fn })

IsFirstEdit(k) == IsEdit(k) /\ CallsBefore("editImageWithQwen", k) = 0
IsRetryEdit(k) == IsEdit(k) /\ CallsBefore("editImageWithQwen", k) = 1
IsFirstValidation(k) ==
    IsValidation(k) /\ CallsBefore("validateImageTranslation", k) = 0

\* C24: for one image the edit service is called at most twice and the
\* validator at most twice; the retry edit comes only after the first edit
\* produced a file whose validation failed; a first validation that passes
\* ends the flow with the edited file, with no retry and no compositor
\* call; a first edit that produces no file goes to the compositor and is
\* never retried.
C24_RetryOnlyAfterFailedValidation ==
    /\ Len(EditCalls) <= 2
    /\ Len(ValidateCalls) <= 2
    /\ \A k \in DOMAIN icalls :
          /\ IsRetryEdit(k) =>
                /\ k > 2
                /\ IsFirstValidation(k - 1)
                /\ ~icalls[k - 1].success
                /\ IsFirstEdit(k - 2)
                /\ ProducedNewFile(icalls[k - 2].ret, ifiles)
                /\ icalls[k - 1].imagePath = icalls[k - 2].ret
          /\ (IsFirstValidation(k) /\ icalls[k].success) =>
                /\ k = Len(icalls)
                /\ ipc \in {"upload", "uploaded", "skipped"}
                /\ finalImagePath = EditedImage
                /\ OverlayCalls = <<>>
                /\ Len(EditCalls) = 1
          /\ (IsFirstEdit(k) /\ ~ProducedNewFile(icalls[k].ret, ifiles)) =>
                /\ Len(EditCalls) = 1
                /\ ValidateCalls = <<>>
                /\ IF k = Len(icalls) THEN ipc = "fallback"
                   ELSE /\ Len(icalls) = k + 1
                        /\ icalls[k + 1].fn = "overlayTranslatedText"

\* Both edits produced a file and both validations failed: two calls of
\* each, then the compositor.
C24_Witness ==
    /\ Len(EditCalls) = 2
    /\ Len(ValidateCalls) = 2
    /\ ~ValidateCalls[1].success
    /\ ~ValidateCalls[2].success
    /\ Len(OverlayCalls) = 1
    /\ ipc = "uploaded"

-----------------------------------------------------------------------------
(* Claims about the instruction of the retry (SpecImage) *)

\* The instruction text editImageWithQwen builds: a fixed opening, one line
\* per overlay, fixed rules.  Nothing else enters it.
Instructions(overlays) == [text |-> "replace", overlays |-> overlays]

\* The body of the request an edit call submits.
EditRequestBody(call) ==
    [model |-> "qwen-image-edit-max",
     image |-> call.imagePath,
     text |-> Instructions(overlayCount)]

SubmitsRequest(k) == IsEdit(k) /\ icalls[k].requests > 0

\* C25: the edit instruction submitted on the retry is a reinforced one,
\* different from the one of the first attempt: the two edit requests made
\* for the same image and overlays are never identical.
C25_RetryIsReinforced ==
    \A j, k \in DOMAIN icalls :
        (j < k /\ SubmitsRequest(j) /\ SubmitsRequest(k)) =>
            EditRequestBody(icalls[j]) # EditRequestBody(icalls[k])

-----------------------------------------------------------------------------
(* Claims about segments without audio (Spec) *)

\* The segments assembleAudioTrack has gone through (1-based).
Assembled ==
    IF pc = "assemble" THEN 1 .. idx
    ELSE IF TrackBuilt THEN DOMAIN segments
    ELSE {}

\* The end of the last segment with audio before segment k, or 0.
PreviousVoicedEnd(k) ==
    LET earlier == { j \in Voiced : j < k }
    IN  IF earlier = {} THEN 0
        ELSE SyncedList[CHOOSE j \in earlier :
                            \A other \in earlier : other <= j].end

\* The places of concatList that hold a file of segment k (0-based i = k - 1).
EntriesOf(k) ==
    { p \in DOMAIN concatList :
        concatList[p].path \in {SegmentPath(k - 1), AdjustedPath(k - 1),
                                SilencePath(k - 1)} }

Distance(a, b) == IF a >= b THEN a - b ELSE b - a

RECURSIVE CoveredBlocks(_)
CoveredBlocks(k) ==
    IF k = 0 THEN 0 ELSE CoveredBlocks(k - 1) + batchLog[k].batch.size

\* allOverlays.push(...batchResult.overlays) over the first k batches: the
\* overlays of those that parsed.
RECURSIVE OverlaysOfParsed(_)
OverlaysOfParsed(k) ==
    IF k = 0 THEN 0
    ELSE OverlaysOfParsed(k - 1)
         + (IF batchLog[k].result # <<>> THEN batchLog[k].result[1] ELSE 0)

\* The for loop over the batches has run to its end.
BatchLoopEnded ==
    \/ opc = "batch" /\ batchStart >= blocks
    \/ opc = "returned" /\ batchLog # <<>> /\ filtered # <<>>

StartFontSize ==
    IF boxHeight \div 2 > MIN_FONT THEN boxHeight \div 2 ELSE MIN_FONT

\* The callback has returned for this overlay.
WrapEnded == wpc \in {"skipped", "drawn"}

\* C28: the auto-fit loop ends for every text and box; the font size is
\* never under MIN_FONT nor over the starting size max(MIN_FONT,
\* floor(boxHeight / 2)); and when the loop is left either the lines at 1.2
\* line height fit the height of the box or the font size is MIN_FONT.
C28_AutoFitTerminatesInRange ==
    /\ <>WrapEnded
    /\ [](wpc \in {"fit", "drawn"} =>
            /\ fontSize >= MIN_FONT
            /\ fontSize <= StartFontSize)
    /\ [](wpc = "drawn" => ~TextTooHigh \/ fontSize = MIN_FONT)

\* The loop shrank the font down to the minimum and the text is drawn
\* although it is still too high.
C28_Witness ==
    /\ wpc = "drawn"
    /\ StartFontSize > MIN_FONT
    /\ fontSize = MIN_FONT
    /\ TextTooHigh

(***************************************************************************)
(* Claims about the files of assembleAudioTrack (Spec)                     *)
(***************************************************************************)

\* The files assembleAudioTrack writes for its own use that are on disk:
\* silence clips and the concat list.
AssembleTemporaries ==
    { q \in files : q[1] \in {"silence", "silence_final"} }
        \cup (files \cap {File("concat_list.txt")})

\* assembleAudioTrack was called and has returned or thrown.
AssembleEnded ==
    /\ "assembleAudioTrack" \in invoked
    /\ pc \notin {"assemble", "concat"}

\* C29: once assembleAudioTrack has ended, by returning or by throwing
\* (silence generation or concatenation failed), no silence clip and no
\* concat list it wrote is left on disk.
C29_NoTemporariesLeft == AssembleEnded => AssembleTemporaries = {}

\* The raw and adjusted clips of the segments, as SYNTHESIZE and
\* SYNC_TIMING recorded them.
SegmentClips ==
    UNION { {segments[k].audioPath, segments[k].adjustedAudioPath} \ {<<>>} :
            k \in DOMAIN segments }

\* C30: the step in which assembleAudioTrack cleans up and returns removes
\* no raw or adjusted clip of any segment: every such clip on disk before
\* the step is on disk after it.
C30_AssemblyKeepsClips ==
    [][pc = "concat" /\ pc' = "remux" =>
         \A q \in SegmentClips : q \in files => q \in files']_vars

(***************************************************************************)
(* Claims about the video cap of main (SpecMainVideos)                     *)
(***************************************************************************)

\* The iterations in which the video was downloaded and dubVideo was
\* called.
DubStarts ==
    { j \in DOMAIN mlog :
        /\ posts[mlog[j].post].type = "video"
        /\ mlog[j].reached \in {"dubVideo", "uploadVideo", "push"} }

\* C31: in one run of main on CI the number of video posts for which the
\* dubbing pipeline is started never exceeds MAX_VIDEOS, whether the
\* videos succeed or fail.
C31_DubStartsWithinCap == ci => Cardinality(DubStarts) <= MAX_VIDEOS

(***************************************************************************)
(* Claims about the pacing of the TTS requests (Spec)                      *)
(***************************************************************************)

\* C32: generateAllSegments never issues two TTS requests one after the
\* other without the sleep of TTS_DELAY_MS between them, whether the
\* earlier request succeeded or failed.
C32_TtsRequestsArePaced ==
    \A k \in 1 .. Len(ttsLog) - 1 :
        ttsLog[k].ev = "request" =>
            /\ ttsLog[k + 1].ev = "sleep"
            /\ ttsLog[k + 1].ms = TTS_DELAY_MS

(***************************************************************************)
(* Claims about a missing vocal-separation tool (Spec)                     *)
(***************************************************************************)

\* backgroundAudio: !!accompanimentPath in the object dubVideo returns.
backgroundAudio == accompanimentPath # <<>>

\* The errors of the background-separation branch.
SeparationErrors ==
    {"High-quality audio extraction failed", "Demucs failed",
     "Demucs ran but no_vocals.mp3 not found"}

\* The functions dubVideo calls after the probe when the tool is absent.
RemainingCalls ==
    {"transcribeAudio", "translateSegments", "generateAllSegments",
     "syncAudioTiming", "assembleAudioTrack", "replaceAudioTrack"}

\* C33: when the probe reports the separation tool absent, dubVideo raises
\* no error for it, calls neither extractHighQualityAudio nor
\* separateAudio, goes on through all the remaining stages, calls
\* replaceAudioTrack with no accompaniment and returns backgroundAudio
\* false; and the probe is passed once in a run: it is reached only from
\* extractAudio, which is reached only from the start, which is never
\* reached again.
C33_AbsentToolDisablesBranch ==
    /\ [](~env.demucs =>
            /\ invoked \cap {"extractHighQualityAudio", "separateAudio"} = {}
            /\ files \cap {File("audio-hq.wav"), File("no_vocals.mp3")} = {}
            /\ err # <<>> => err[1] \notin SeparationErrors
            /\ ~backgroundAudio
            /\ pc \notin {"hq", "separate"}
            /\ pc = "done" => RemainingCalls \subseteq invoked)
    /\ [][/\ pc' = "probe" => pc = "extract"
          /\ pc' = "extract" => pc = "start"
          /\ pc' # "start"
          /\ pc = "probe" /\ ~env.demucs =>
                /\ pc' = "transcribe"
                /\ invoked' = invoked \cup {"transcribeAudio"}
                /\ err' = <<>>]_vars

\* A run without the tool that went through to the dubbed video.
C33_Witness ==
    /\ ~env.demucs
    /\ pc = "done"
    /\ "replaceAudioTrack" \in invoked
    /\ ~backgroundAudio
    /\ File("dubbed-video.mp4") \in files

(***************************************************************************)
(* Claims about the word ceiling of the translation (SpecTrans)            *)
(***************************************************************************)

\* C34: the english of the record translateSegments pushes for a segment
\* has at most round(duration * 2.5) words, whatever the translation
\* service answers.
C34_EnglishWithinWordCeiling ==
    tpc = "pushed" => WordCount(tenglish[1]) <= maxWords(tsegment.duration)

(***************************************************************************)
(* Claims about the backoff of transcribeAudio (Spec)                      *)
(***************************************************************************)

\* The API calls made before position k of the log.
CallsMadeBefore(k) ==
    Cardinality({ j \in 1 .. k - 1 : whisperLog[j].ev = "call" })

\* The documented schedule: 2 s before the first retry, doubling.
DocumentedBackoff(retry) == BACKOFF_BASE_MS * 2 ^ (retry - 1)

\* C35: transcribeAudio never waits before its first attempt, waits 2
\* seconds before the first retry (attempt 2) and 4 seconds before the
\* second retry (attempt 3).
C35_BackoffFollowsSchedule ==
    \A k \in DOMAIN whisperLog :
        whisperLog[k].ev = "sleep" =>
            /\ CallsMadeBefore(k) >= 1
            /\ whisperLog[k].ms = DocumentedBackoff(CallsMadeBefore(k))

(***************************************************************************)
(* Claims about a validator without a verdict (SpecImage)                  *)
(***************************************************************************)

\* The last validation ended without a verdict: the edited image could not
\* be read, the call threw, or the answer held no JSON that parses.
ValidatorInconclusive == validation # <<>> /\ validation[2].kind # "verdict"

\* C36: when validateImageTranslation reaches no verdict it reports
\* success, and the flow takes the edited image it was validating as the
\* final image: the validation is the last call made for the image, so no
\* retry and no compositor call follows it.
C36_ValidatorFailsOpen ==
    ValidatorInconclusive =>
        /\ validation[1] = TRUE
        /\ LastCall.fn = "validateImageTranslation"
        /\ LastCall.success
        /\ FlowEnded
        /\ finalImagePath = translatedPath
        /\ finalImagePath = LastCall.imagePath
        /\ finalImagePath \in {EditedImage, RetryImage}

\* The validator's call threw for the first edit, and the edited image was
\* uploaded.
C36_Witness ==
    /\ ValidatorInconclusive
    /\ validation[2].kind = "apiFailed"
    /\ Len(ValidateCalls) = 1
    /\ finalImagePath = EditedImage
    /\ ipc = "uploaded"

(***************************************************************************)
(* Claims about the route of an image (SpecImage)                          *)
(***************************************************************************)

\* The positions of the generative edit path.
EditPath == {"edit", "validate", "retry", "revalidate", "fallback"}

\* C37: the number n of overlays decides the route of the image, and only
\* one route is taken.  n = 0: no edit, validation or compositor call, the
\* original image is the final one.  1 <= n <= OVERLAY_THRESHOLD: the
\* generative edit path, whose first call is the edit of the original
\* image.  n > OVERLAY_THRESHOLD: one compositor call on the original image
\* and no edit or validator call.
C37_RouteByOverlayCount ==
    ipc \notin {"idle", "analyze"} =>
        /\ Len(icalls) >= 1
        /\ icalls[1].fn = "analyzeImageWithGoogle"
        /\ overlayCount = 0 =>
              /\ Len(icalls) = 1
              /\ finalImagePath = LocalImage
              /\ ipc \notin EditPath \cup {"dense"}
        /\ overlayCount \in 1 .. OVERLAY_THRESHOLD =>
              /\ ipc # "dense"
              /\ ipc # "edit" =>
                    /\ Len(icalls) >= 2
                    /\ icalls[2].fn = "editImageWithQwen"
                    /\ icalls[2].imagePath = LocalImage
                    /\ icalls[2].outputPath = EditedImage
        /\ overlayCount > OVERLAY_THRESHOLD =>
              /\ ipc \notin EditPath
              /\ EditCalls = <<>>
              /\ ValidateCalls = <<>>
              /\ IF ipc = "dense" THEN Len(icalls) = 1
                 ELSE /\ Len(icalls) = 2
                      /\ icalls[2].fn = "overlayTranslatedText"
                      /\ icalls[2].imagePath = LocalImage

\* An image with more overlays than the threshold was composited and
\* uploaded.
C37_Witness ==
    /\ overlayCount > OVERLAY_THRESHOLD
    /\ ipc = "uploaded"
    /\ Len(OverlayCalls) = 1
    /\ finalImagePath = OverlayImage

(***************************************************************************)
(* Claims about the Feed (SpecFeed)                                        *)
(***************************************************************************)

\* C38: at most one loadMore query is in flight at any time, and the ref
\* is set exactly while one is.  A query is issued only by a loadMore that
\* found the ref clear and hasMore true, and it sets the ref; a loadMore
\* called while the ref is set, or whose hasMore is false, issues nothing.
\* The ref is cleared whenever a query ends, with rows or with an error.
C38_OneLoadMoreInFlight ==
    /\ [](Len(loadMoreFetches) <= 1)
    /\ [](loadingMoreRef <=> Len(loadMoreFetches) = 1)
    /\ [][Len(loadMoreFetches') > Len(loadMoreFetches) =>
             /\ ~loadingMoreRef
             /\ loadingMoreRef'
             /\ observerClosure[1].hasMore
             /\ hasMore]_vars
    /\ [][(loadingMoreRef \/ ~hasMore) =>
             Len(loadMoreFetches') <= Len(loadMoreFetches)]_vars
    /\ [][Len(loadMoreFetches') < Len(loadMoreFetches) =>
             ~loadingMoreRef']_vars

\* The observer fired while a loadMore query was in flight, and the call
\* returned without a second query.
C38_Witness ==
    /\ lastFire = "returned"
    /\ loadingMoreRef
    /\ Len(loadMoreFetches) = 1
    /\ observerClosure[1].hasMore

\* C39: once the effects of a tab change have run, every post in the list
\* belongs to the active tab: its category is activeTab, unless activeTab
\* is "all".
C39_PostsBelongToActiveTab ==
    (activeTab \in Tabs /\ effectTab = activeTab) =>
        (activeTab = "all" \/ feedPosts \subseteq {activeTab})

=============================================================================
